---- MODULE Spec2Model ----
(***************************************************************************)
(* Model of the NoobRL core: fighter (hp, death), timed status effects,    *)
(* the AI behaviours and the energy-based turn scheduler of the engine.    *)
(*                                                                         *)
(* The map is a corridor of tiles (y = 0); a tile is named by its x.       *)
(* Python sets are iterated in an arbitrary order: every loop over a set   *)
(* of actors takes its order from a permutation chosen by the caller.      *)
(***************************************************************************)
EXTENDS Integers, Sequences, FiniteSets, TLC

\* ------------------------------------------------------------------ bounds
MaxEffects == 2
MaxDuration == 2
MaxTurn == 3

\* ------------------------------------------------------------- the actors
Monsters == {"m1", "m2"}
Actors == {"player"} \cup Monsters
NoActor == "nobody"

\* Templates (data/monsters.json is read by MonsterManager.load).
MaxHpOf(a) == IF a = "player" THEN 3 ELSE 2
BasePower(a) == IF a = "player" THEN 2 ELSE 2
BaseDefense(a) == IF a = "player" THEN 1 ELSE 0
BaseSpeed(a) == CASE a = "player" -> 100 [] a = "m1" -> 150 [] OTHER -> 200
\* The death_explosion dict of a template that has one (the Puffball).
DeathExplosion == [delay |-> 2, radius |-> 1, damage |-> 1]
SightRange(a) == 6
AttackRange(a) == 1

\* The corridor of the model
Tiles == 0 .. 3
NoTile == -1
\* tile_types: the kinds of tile of the corridor, and which are walkable
TileKinds == {"floor", "wall", "door_closed", "door_open"}
Walkable(kind) == kind \in {"floor", "door_open"}
OpenCorridor == [x \in Tiles |-> "floor"]

\* AI objects. An actor's ai is a stack: <<>> is None, the head is the AI in
\* charge, and under a ConfusedEnemy lies its previous_ai.
HostileAI == [kind |-> "hostile", n |-> 0, lkt |-> NoTile]
ConfusedAI(turns) == [kind |-> "confused", n |-> turns, lkt |-> NoTile]
ExplodingCorpseAI(delay) == [kind |-> "exploding", n |-> delay, lkt |-> NoTile]
PatrollingAI == [kind |-> "patrolling", n |-> 0, lkt |-> NoTile]

EffectNames == {"Haste", "Sleep", "Invisible"}
\* the potions the player throws in the model
ThrownNames == {"Haste", "Sleep"}
Effect(name, duration) == [name |-> name, max_turns |-> duration, turns_left |-> 0]

VARIABLES
    hp,               \* Fighter._hp of each actor
    ai,               \* Actor.ai (a stack, see above)
    render_order,     \* Entity.render_order: "ACTOR" or "CORPSE"
    blocks_movement,  \* Entity.blocks_movement
    entities,         \* GameMap.entities (the actors among them)
    pos,              \* Entity.x
    effects,          \* Actor.effects, a list of effect records
    is_asleep, is_hasted, is_invisible,
    energy,           \* Actor.energy
    turn,             \* Engine.turn
    bonus_actions,    \* Engine._bonus_actions
    visible,          \* GameMap.visible (the set of visible tiles)
    kill_counts,      \* Engine.kill_counts, per actor
    xp_awards,        \* number of add_xp calls made for each actor's death
    death_msgs,       \* number of death messages logged for each actor
    death_explosion,  \* Actor.death_explosion: whether the actor has one
    tiles,            \* GameMap.tiles: the kind of each tile
    secret_doors,     \* GameMap.secret_doors
    booms,            \* number of detonations of each actor's corpse
    hits,             \* take_damage calls the explosions of the last step made on each actor
    wake_msgs,        \* wake-up messages logged for each actor in the last step
    hurt_asleep,      \* the last step set the hp of an actor in take_damage while it slept
    roll,             \* a compute_damage call: its arguments, its random draw, its result
    inventory,        \* Inventory.items of the player: a list of items (name, stack_count)
    floor,            \* the items among GameMap.entities (name, x, stack_count)
    thrown,           \* the last ThrowAction: item, line, landing tile, actor hit, outcome
    base_power,       \* Fighter.base_power of the player, a fraction num/den
    calm_power,       \* base_power when the player last carried no Rage effect
    defense_bonus,    \* Equipment.defense_bonus of each actor
    run,              \* the action handle_action is repeating: its kind, direction, path
    noticed,          \* Actor.noticed_player
    patrol,           \* PatrollingEnemy: path, patrol_target and wander_turns of each actor
    names,            \* Entity.name of each actor
    grid,             \* a two-dimensional map: its walkable and its interesting cells
    xy,               \* the player's x and y on that map
    pc,               \* where the program is: "player" or a step of end_turn
    snapshot,         \* handle_enemy_turns: actors of the set still to visit
    cur,              \* handle_enemy_turns: the entity of the running loop body
    log,              \* what the running end_turn call has done so far
    performs,         \* perform() calls made on each actor in the running AI pass
    pass_energy,      \* each actor's energy when the running AI pass began
    grant_speed,      \* the player's speed at the last bonus grant
    last              \* the last operation and what it returned

vars == <<hp, ai, render_order, blocks_movement, entities, pos, effects,
          is_asleep, is_hasted, is_invisible, energy, turn, bonus_actions,
          visible, kill_counts, xp_awards, death_msgs, death_explosion,
          tiles, secret_doors, booms, hits, wake_msgs, hurt_asleep, roll,
          inventory, floor, thrown, base_power, calm_power, defense_bonus,
          run, noticed, patrol, names, grid, xy, pc, snapshot, cur, log,
          performs, pass_energy, grant_speed, last>>

\* The part of the state the fighter, effect and AI code works on. What is
\* observed of one step (hits, wake_msgs, hurt_asleep) starts empty with it.
World == [hp |-> hp, ai |-> ai, render_order |-> render_order,
          blocks_movement |-> blocks_movement, entities |-> entities,
          pos |-> pos, effects |-> effects, is_asleep |-> is_asleep,
          is_hasted |-> is_hasted, is_invisible |-> is_invisible,
          energy |-> energy, visible |-> visible, kill_counts |-> kill_counts,
          xp_awards |-> xp_awards, death_msgs |-> death_msgs,
          death_explosion |-> death_explosion, tiles |-> tiles,
          secret_doors |-> secret_doors, booms |-> booms,
          hits |-> [a \in Actors |-> 0], wake_msgs |-> [a \in Actors |-> 0],
          hurt_asleep |-> FALSE, roll |-> roll,
          inventory |-> inventory, floor |-> floor, thrown |-> thrown,
          base_power |-> base_power, calm_power |-> calm_power,
          defense_bonus |-> defense_bonus, run |-> run,
          noticed |-> noticed, patrol |-> patrol, names |-> names,
          grid |-> grid, xy |-> xy]

SetWorld(w) ==
    /\ hp' = w.hp
    /\ ai' = w.ai
    /\ render_order' = w.render_order
    /\ blocks_movement' = w.blocks_movement
    /\ entities' = w.entities
    /\ pos' = w.pos
    /\ effects' = w.effects
    /\ is_asleep' = w.is_asleep
    /\ is_hasted' = w.is_hasted
    /\ is_invisible' = w.is_invisible
    /\ energy' = w.energy
    /\ visible' = w.visible
    /\ kill_counts' = w.kill_counts
    /\ xp_awards' = w.xp_awards
    /\ death_msgs' = w.death_msgs
    /\ death_explosion' = w.death_explosion
    /\ tiles' = w.tiles
    /\ secret_doors' = w.secret_doors
    /\ booms' = w.booms
    /\ hits' = w.hits
    /\ wake_msgs' = w.wake_msgs
    /\ hurt_asleep' = w.hurt_asleep
    /\ roll' = w.roll
    /\ inventory' = w.inventory
    /\ floor' = w.floor
    /\ thrown' = w.thrown
    /\ base_power' = w.base_power
    /\ calm_power' = w.calm_power
    /\ defense_bonus' = w.defense_bonus
    /\ run' = w.run
    /\ noticed' = w.noticed
    /\ patrol' = w.patrol
    /\ names' = w.names
    /\ grid' = w.grid
    /\ xy' = w.xy

\* ------------------------------------------------------------ small helpers
Max(x, y) == IF x >= y THEN x ELSE y
Min(x, y) == IF x <= y THEN x ELSE y
Abs(x) == IF x >= 0 THEN x ELSE -x

Perms == {s \in [1 .. Cardinality(Actors) -> Actors] : \A a \in Actors : \E i \in DOMAIN s : s[i] = a}

\* The order of a loop over a set of actors decides its outcome only when one
\* of the actors is a corpse that still has an AI (it may explode in the loop,
\* and it may share its tile with another actor); otherwise one order stands
\* for all of them.
Orders(w) ==
    IF \E a \in Actors : w.ai[a] # <<>> /\ w.render_order[a] = "CORPSE"
    THEN Perms
    ELSE {<<"player", "m1", "m2">>}

\* The members of set S in the order of the permutation ord.
RECURSIVE InOrder(_, _)
InOrder(ord, S) ==
    IF ord = <<>> THEN <<>>
    ELSE IF Head(ord) \in S THEN <<Head(ord)>> \o InOrder(Tail(ord), S)
    ELSE InOrder(Tail(ord), S)

RemoveAt(s, i) == [j \in 1 .. (Len(s) - 1) |-> IF j < i THEN s[j] ELSE s[j + 1]]

\* Actor.is_alive
IsAlive(w, a) == w.ai[a] # <<>>

\* GameMap.actors: the living actors of the map
ActorsOf(w) == {a \in w.entities : IsAlive(w, a)}

\* GameMap.get_actor_at_location
ActorsAt(w, x) == {a \in ActorsOf(w) : w.pos[a] = x}

\* GameMap.get_blocking_entity_at_location
BlockedAt(w, x) == \E a \in w.entities : w.blocks_movement[a] /\ w.pos[a] = x

\* A radius test that leaves the boundary out
WithinDistanceStrict(w, a, x, r) == Abs(w.pos[a] - x) < r

\* Entity.distance(x, y) <= r, on the corridor
WithinDistance(w, a, x, r) == Abs(w.pos[a] - x) <= r

\* Actor.speed
Speed(w, a) == BaseSpeed(a) * (IF w.is_hasted[a] THEN 2 ELSE 1)

\* ------------------------------------------------------ components/fighter.py
IsExploding(w, a) == w.ai[a] # <<>> /\ Head(w.ai[a]).kind = "exploding"

RECURSIVE SetHp(_, _, _, _), Die(_, _, _), TakeDamage(_, _, _, _)
RECURSIVE Explode(_, _, _), ExplodeLoop(_, _, _, _)

\* The hp setter with the clamp left out
SetHpNoClamp(w, a, value, ord) ==
    LET w1 == [w EXCEPT !.hp[a] = value]
    IN IF value = 0 /\ w1.ai[a] # <<>> THEN Die(w1, a, ord) ELSE w1

\* An hp setter that leaves the death to a later tick
SetHpNoDie(w, a, value, ord) == [w EXCEPT !.hp[a] = Max(0, Min(value, MaxHpOf(a)))]

\* Fighter.hp setter
SetHp(w, a, value, ord) ==
    LET v == Max(0, Min(value, MaxHpOf(a)))
        w1 == [w EXCEPT !.hp[a] = v]
    IN IF v = 0 /\ w1.ai[a] # <<>> THEN Die(w1, a, ord) ELSE w1

\* The corpse test of Fighter.die, and a test that never finds a corpse
AlreadyCorpseNever(w, a) == FALSE

AlreadyCorpse(w, a) == w.render_order[a] = "CORPSE"

\* A re-entry of Fighter.die that only disarms the corpse
CorpseReentryDisarm(w, a, ord) == [w EXCEPT !.ai[a] = <<>>]

\* Fighter.die on an actor that is a corpse already: a primed exploding corpse
\* is set off (the chain explosion), and nothing else is done
CorpseReentry(w, a, ord) == IF IsExploding(w, a) THEN Explode(w, a, ord) ELSE w

\* Fighter.die
Die(w, a, ord) ==
    IF AlreadyCorpse(w, a)
    THEN CorpseReentry(w, a, ord)
    ELSE LET primed == w.death_explosion[a] /\ ~IsExploding(w, a)
         IN [w EXCEPT
                !.kill_counts[a] = IF a = "player" THEN @ ELSE @ + 1,
                !.blocks_movement[a] = FALSE,
                !.render_order[a] = "CORPSE",
                !.ai[a] = IF primed THEN <<ExplodingCorpseAI(DeathExplosion.delay)>>
                          ELSE <<>>,
                !.death_msgs[a] = @ + 1,
                !.xp_awards[a] = @ + 1]

HasSleep(w, a) == \E i \in DOMAIN w.effects[a] : w.effects[a][i].name = "Sleep"

\* A take_damage that lowers the hp first and wakes the actor afterwards
TakeDamageHpFirst(w, a, amount, ord) ==
    LET w1 == [w EXCEPT !.hurt_asleep = @ \/ w.is_asleep[a]]
        w2 == SetHp(w1, a, w1.hp[a] - amount, ord)
    IN IF w.is_asleep[a]
       THEN [w2 EXCEPT !.is_asleep[a] = FALSE,
                       !.effects[a] = SelectSeq(@, LAMBDA e : e.name # "Sleep"),
                       !.wake_msgs[a] = @ + 1]
       ELSE w2

\* Fighter.take_damage: a sleeping actor is woken, its Sleep effects are
\* removed and the wake-up message is logged; then "self.hp -= amount", where
\* hurt_asleep records whether the actor is still asleep at that statement
TakeDamage(w, a, amount, ord) ==
    LET w1 == IF w.is_asleep[a]
              THEN [w EXCEPT !.is_asleep[a] = FALSE,
                             !.effects[a] = SelectSeq(@, LAMBDA e : e.name # "Sleep"),
                             !.wake_msgs[a] = @ + 1]
              ELSE w
        w2 == [w1 EXCEPT !.hurt_asleep =
                  @ \/ w1.is_asleep[a] \/ (w.is_asleep[a] /\ HasSleep(w1, a))]
    IN SetHp(w2, a, w2.hp[a] - amount, ord)

\* Fighter.heal: the world after the call and the value returned
Heal(w, a, amount, ord) ==
    IF w.hp[a] = MaxHpOf(a) THEN [w |-> w, ret |-> 0]
    ELSE LET new_hp_value == Min(w.hp[a] + amount, MaxHpOf(a))
         IN [w |-> SetHp(w, a, new_hp_value, ord), ret |-> new_hp_value - w.hp[a]]

\* ----------------------------------------- components/ai.py ExplodingCorpseAI
\* the loop of ExplodingCorpseAI.explode over the actors of its snapshot
ExplodeLoop(w, c, targets, ord) ==
    IF targets = <<>> THEN w
    ELSE LET t == Head(targets)
             w1 == IF t # c /\ WithinDistance(w, t, w.pos[c], DeathExplosion.radius)
                   THEN TakeDamage([w EXCEPT !.hits[t] = @ + 1], t,
                                   DeathExplosion.damage, ord)
                   ELSE w
         IN ExplodeLoop(w1, c, Tail(targets), ord)

\* An explode that arms the corpse again when its loop is over and leaves it
\* on the map
ExplodeRearm(w, c, ord) ==
    LET w1 == [w EXCEPT !.ai[c] = <<>>, !.booms[c] = @ + 1]
        targets == InOrder(ord, ActorsOf(w1) \cup {"player"})
    IN [ExplodeLoop(w1, c, targets, ord) EXCEPT !.ai[c] = w.ai[c]]

\* ExplodingCorpseAI.explode
Explode(w, c, ord) ==
    LET w1 == [w EXCEPT !.ai[c] = <<>>, !.booms[c] = @ + 1]
        targets == InOrder(ord, ActorsOf(w1) \cup {"player"})
        w2 == ExplodeLoop(w1, c, targets, ord)
    IN [w2 EXCEPT !.entities = @ \ {c}]

\* ExplodingCorpseAI.perform
ExplodingPerform(w, c, ord) ==
    LET w1 == [w EXCEPT !.ai[c] = <<[Head(@) EXCEPT !.n = @ - 1]>> \o Tail(@)]
    IN IF Head(w1.ai[c]).n <= 0 THEN Explode(w1, c, ord) ELSE w1

\* ----------------------------------------------------------------- actions.py
\* compute_damage; crit is the outcome of random.random() <= crit_chance
ComputeDamage(attack_power, defense, crit) ==
    LET damage == attack_power - defense
    IN IF crit
       THEN (IF damage * 3 <= 0 THEN 1 ELSE (damage * 3 + 1) \div 2)
       ELSE damage

\* Chances and random draws are counted in hundredths: random.random() gives
\* a float of [0.0, 1.0), 0.0 included, and the default crit_chance is 0.05.
DefaultCritChance == 5
RandomDraws == 0 .. 99

\* The test `random.random() <= crit_chance` of compute_damage
CritFires(draw, crit_chance) == draw <= crit_chance

\* compute_damage(attack_power, defense, crit_chance) when random.random()
\* gives draw: the pair it returns
ComputeDamageDrawn(attack_power, defense, crit_chance, draw) ==
    [damage |-> ComputeDamage(attack_power, defense, CritFires(draw, crit_chance)),
     is_crit |-> CritFires(draw, crit_chance)]

\* The names of the actors where no claim is about them
PlainNames == [a \in Actors |-> IF a = "player" THEN "Player" ELSE "Orc"]

\* big_monsters of MeleeAction.perform
BigMonsters == {"Dragon", "Ender Dragon", "Hydra"}
BossCritChance == 30

\* The crit_chance MeleeAction.perform passes to compute_damage
MeleeCritChance(name) == IF name \in BigMonsters THEN BossCritChance ELSE DefaultCritChance

\* RangedAttackAction.perform passes power and defense only: compute_damage
\* takes the default of its crit_chance parameter
RangedCritChance(name) == DefaultCritChance

\* No compute_damage call is followed
NoRoll == [attack_power |-> 0, defense |-> 0, crit_chance |-> 0, draw |-> 0,
           damage |-> 0, is_crit |-> FALSE, done |-> FALSE]

\* A number of base_power: an int, or the float an int times a float gives,
\* kept as a fraction in lowest terms
Whole(n) == [num |-> n, den |-> 1]

\* PatrollingEnemy.__init__: no path, no patrol target, no wander turns left
NoPatrol == [path |-> <<>>, target |-> NoTile, wander |-> 0]

\* No two-dimensional map is in use
NoGrid == [walkable |-> {}, interesting |-> {}]

\* No action is being repeated
NoRun == [kind |-> "none", d |-> <<0, 0>>, has_moved |-> FALSE, path |-> <<>>]

\* No throw was made
NoThrow == [name |-> "none", from |-> NoTile, target |-> NoTile, x |-> NoTile,
            hit |-> NoActor, stop |-> "none", fate |-> "none"]

Power(w, a) == BasePower(a)
\* Fighter.defense: base_defense + defense_bonus
Defense(w, a) == BaseDefense(a) + w.defense_bonus[a]

\* A direction is <<dx, dy>>; the corridor has the one row y = 0.
Directions == {d \in {-1, 0, 1} \X {-1, 0, 1} : d # <<0, 0>>}
InBounds(x, dy) == dy = 0 /\ x \in Tiles

\* Each action gives the world after perform() and whether it returned (ok)
\* or raised Impossible.
\* A MeleeAction that calls take_damage whatever the damage is
MeleeActionAlways(w, a, d, crit, ord) ==
    LET here == IF d[2] = 0 THEN ActorsAt(w, w.pos[a] + d[1]) ELSE {}
    IN IF here = {} THEN [w |-> w, ok |-> FALSE]
       ELSE LET target == Head(InOrder(ord, here))
                damage == ComputeDamage(Power(w, a), Defense(w, target), crit)
            IN [w |-> TakeDamage(w, target, damage, ord), ok |-> TRUE]

\* MeleeAction.perform
MeleeAction(w, a, d, crit, ord) ==
    LET here == IF d[2] = 0 THEN ActorsAt(w, w.pos[a] + d[1]) ELSE {}
    IN IF here = {} THEN [w |-> w, ok |-> FALSE]
       ELSE LET target == Head(InOrder(ord, here))
                damage == ComputeDamage(Power(w, a), Defense(w, target), crit)
            IN [w |-> IF damage > 0 THEN TakeDamage(w, target, damage, ord) ELSE w,
                ok |-> TRUE]

\* The target_actor of a MeleeAction and the damage it resolves
MeleeTarget(w, a, d, ord) ==
    LET here == IF d[2] = 0 THEN ActorsAt(w, w.pos[a] + d[1]) ELSE {}
    IN IF here = {} THEN NoActor ELSE Head(InOrder(ord, here))

MeleeDamage(w, a, target, crit) ==
    IF target = NoActor THEN 0 ELSE ComputeDamage(Power(w, a), Defense(w, target), crit)

\* RangedAttackAction.perform
RangedAttackAction(w, a, crit, ord) ==
    LET damage == ComputeDamage(Power(w, a), Defense(w, "player"), crit)
    IN [w |-> IF damage > 0 THEN TakeDamage(w, "player", damage, ord) ELSE w,
        ok |-> TRUE]

\* A MovementAction that moves the entity before it validates the destination
MovementActionMoveFirst(w, a, d) ==
    LET dest == w.pos[a] + d[1]
    IN IF ~InBounds(dest, d[2]) \/ ~Walkable(w.tiles[dest]) \/ BlockedAt(w, dest)
       THEN [w |-> [w EXCEPT !.pos[a] = IF dest \in Tiles THEN dest ELSE @], ok |-> FALSE]
       ELSE [w |-> [w EXCEPT !.pos[a] = dest], ok |-> TRUE]

\* MovementAction.perform
MovementAction(w, a, d) ==
    LET dest == w.pos[a] + d[1]
    IN IF ~InBounds(dest, d[2]) \/ ~Walkable(w.tiles[dest]) \/ BlockedAt(w, dest)
       THEN [w |-> w, ok |-> FALSE]
       ELSE [w |-> [w EXCEPT !.pos[a] = dest], ok |-> TRUE]

\* OpenDoorAction.perform on the door at tile x of row dy
OpenDoorAction(w, a, x, dy) ==
    IF ~InBounds(x, dy) THEN [w |-> w, ok |-> FALSE]
    ELSE IF w.tiles[x] = "door_closed"
    THEN [w |-> [w EXCEPT !.tiles[x] = "door_open"], ok |-> TRUE]
    ELSE [w |-> w, ok |-> FALSE]

\* CloseDoorAction.perform on the door at tile x of row dy
CloseDoorAction(w, a, x, dy) ==
    IF ~InBounds(x, dy) THEN [w |-> w, ok |-> FALSE]
    ELSE IF \E e \in w.entities : w.pos[e] = x /\ e # a
    THEN [w |-> w, ok |-> FALSE]
    ELSE IF w.tiles[x] = "door_open"
    THEN [w |-> [w EXCEPT !.tiles[x] = "door_closed"], ok |-> TRUE]
    ELSE [w |-> w, ok |-> FALSE]

\* options.auto_open_doors
AutoOpenDoors == TRUE

\* A BumpAction that goes on to the move after it has revealed a secret door
BumpActionNoReturn(w, a, d, crit, ord) ==
    LET dest == w.pos[a] + d[1]
    IN IF d[2] = 0 /\ ActorsAt(w, dest) # {}
       THEN MeleeAction(w, a, d, crit, ord)
       ELSE IF InBounds(dest, d[2]) /\ dest \in w.secret_doors
       THEN MovementAction([w EXCEPT !.secret_doors = @ \ {dest},
                                     !.tiles[dest] = "door_closed"], a, d)
       ELSE IF InBounds(dest, d[2]) /\ AutoOpenDoors /\ w.tiles[dest] = "door_closed"
       THEN OpenDoorAction(w, a, dest, d[2])
       ELSE MovementAction(w, a, d)

\* BumpAction.perform
BumpAction(w, a, d, crit, ord) ==
    LET dest == w.pos[a] + d[1]
    IN IF d[2] = 0 /\ ActorsAt(w, dest) # {}
       THEN MeleeAction(w, a, d, crit, ord)
       ELSE IF InBounds(dest, d[2]) /\ dest \in w.secret_doors
       THEN [w |-> [w EXCEPT !.secret_doors = @ \ {dest}, !.tiles[dest] = "door_closed"],
             ok |-> TRUE]
       ELSE IF InBounds(dest, d[2]) /\ AutoOpenDoors /\ w.tiles[dest] = "door_closed"
       THEN OpenDoorAction(w, a, dest, d[2])
       ELSE MovementAction(w, a, d)

\* ------------------------------------------------------- components/effect.py
SetFlag(w, a, name, val) ==
    CASE name = "Haste" -> [w EXCEPT !.is_hasted[a] = val]
      [] name = "Sleep" -> [w EXCEPT !.is_asleep[a] = val]
      [] OTHER -> [w EXCEPT !.is_invisible[a] = val]

\* consumer.effects.append(eff); eff.parent = consumer; eff.activate()
Activate(w, a, name, duration) ==
    SetFlag([w EXCEPT !.effects[a] =
                 Append(@, [name |-> name, max_turns |-> duration, turns_left |-> duration])],
            a, name, TRUE)

\* expire() without parent.effects.remove(self)
ExpireNoRemove(w, a, i) == SetFlag(w, a, w.effects[a][i].name, FALSE)

\* expire() of the effect at index i of a's list: the flag is reset and the
\* effect removes itself from parent.effects; a Sleep logs its wake-up message
Expire(w, a, i) ==
    SetFlag([w EXCEPT !.effects[a] = RemoveAt(@, i),
                      !.wake_msgs[a] = IF w.effects[a][i].name = "Sleep" THEN @ + 1 ELSE @],
            a, w.effects[a][i].name, FALSE)

\* An apply_turn that forgets the countdown
ApplyTurnNoCount(w, a, i) == w

\* TimedEffect.apply_turn of the effect at index i of a's list
ApplyTurn(w, a, i) ==
    LET w1 == [w EXCEPT !.effects[a][i].turns_left = @ - 1]
    IN IF w1.effects[a][i].turns_left <= 0 THEN Expire(w1, a, i) ELSE w1

\* "for eff in entity.effects: eff.apply_turn()": the list iterator holds an
\* index i, which goes up by one after every body, whatever the body removed.
RECURSIVE EffectsLoop(_, _, _)
EffectsLoop(w, a, i) ==
    IF i > Len(w.effects[a]) THEN w
    ELSE EffectsLoop(ApplyTurn(w, a, i), a, i + 1)

RECURSIVE ApplyTimedEffectsTo(_, _)
ApplyTimedEffectsTo(w, as) ==
    IF as = <<>> THEN w
    ELSE ApplyTimedEffectsTo(EffectsLoop(w, Head(as), 1), Tail(as))

\* Engine.apply_timed_effects
ApplyTimedEffects(w, ord) == ApplyTimedEffectsTo(w, InOrder(ord, ActorsOf(w)))

\* ------------------------------------------------------------ components/ai.py
RangedAttack(a) == a = "m2"

SetHead(w, a, rec) == [w EXCEPT !.ai[a] = <<rec>> \o Tail(@)]

\* Entity.get_path_to along the corridor: the tiles from the next one to the
\* target, or the empty list when a tile on the way cannot be walked
GetPathTo(w, a, x) ==
    LET px == w.pos[a]
        n == IF x > px THEN x - px ELSE px - x
        way == [i \in 1 .. n |-> IF x > px THEN px + i ELSE px - i]
    IN IF \E i \in 1 .. n : ~Walkable(w.tiles[way[i]]) THEN <<>> ELSE way

\* BaseAI._wander_randomly: Impossible is swallowed
WanderRandomly(w, a, d) == [w |-> MovementAction(w, a, d).w, ok |-> TRUE]

\* A detection test that leaves out the player's invisibility
PlayerDetectedThoughInvisible(w, a) ==
    /\ w.pos[a] \in w.visible
    /\ Abs(w.pos["player"] - w.pos[a]) <= SightRange(a)

\* game_map.visible[entity.x, entity.y] and not player.is_invisible
\* and distance <= entity.sight_range
PlayerDetected(w, a) ==
    /\ w.pos[a] \in w.visible
    /\ ~w.is_invisible["player"]
    /\ Abs(w.pos["player"] - w.pos[a]) <= SightRange(a)

\* A HostileEnemy that remembers the player's tile only when it goes after
\* the player, not when it attacks
HostilePerformChaseOnly(w, a, d, crit, ord) ==
    IF w.is_asleep[a] THEN [w |-> w, ok |-> TRUE]
    ELSE
    LET p == w.pos["player"]
        dx == p - w.pos[a]
        lkt == Head(w.ai[a]).lkt
        follow(w0, path) ==
            IF path = <<>> THEN WanderRandomly(w0, a, d)
            ELSE MovementAction(w0, a, <<Head(path) - w0.pos[a], 0>>)
    IN IF w.pos[a] \in w.visible /\ ~w.is_invisible["player"] /\ Abs(dx) <= SightRange(a)
       THEN IF Abs(dx) <= AttackRange(a)
            THEN IF RangedAttack(a) THEN RangedAttackAction(w, a, crit, ord)
                 ELSE MeleeAction(w, a, <<dx, 0>>, crit, ord)
            ELSE follow([SetHead(w, a, [Head(w.ai[a]) EXCEPT !.lkt = p])
                           EXCEPT !.noticed[a] = TRUE], GetPathTo(w, a, p))
       ELSE IF lkt # NoTile
       THEN IF w.pos[a] = lkt
            THEN WanderRandomly(SetHead(w, a, [Head(w.ai[a]) EXCEPT !.lkt = NoTile]), a, d)
            ELSE follow(w, GetPathTo(w, a, lkt))
       ELSE WanderRandomly(w, a, d)

\* HostileEnemy.perform. self.path is not kept as state: every call that
\* pops a step has just recomputed the path, and the one call that clears
\* last_known_target empties it.
HostilePerform(w, a, d, crit, ord) ==
    IF w.is_asleep[a] THEN [w |-> w, ok |-> TRUE]
    ELSE
    LET p == w.pos["player"]
        dx == p - w.pos[a]
        distance == Abs(dx)
        lkt == Head(w.ai[a]).lkt
        detected == PlayerDetected(w, a)
        follow(w0, path) ==
            IF path = <<>> THEN WanderRandomly(w0, a, d)
            ELSE MovementAction(w0, a, <<Head(path) - w0.pos[a], 0>>)
    IN IF detected
       THEN LET w1 == [SetHead(w, a, [Head(w.ai[a]) EXCEPT !.lkt = p])
                         EXCEPT !.noticed[a] = TRUE]
            IN IF distance <= AttackRange(a)
               THEN IF RangedAttack(a) THEN RangedAttackAction(w1, a, crit, ord)
                    ELSE MeleeAction(w1, a, <<dx, 0>>, crit, ord)
               ELSE follow(w1, GetPathTo(w1, a, p))
       ELSE IF lkt # NoTile
       THEN IF w.pos[a] = lkt
            THEN WanderRandomly(SetHead(w, a, [Head(w.ai[a]) EXCEPT !.lkt = NoTile]), a, d)
            ELSE follow(w, GetPathTo(w, a, lkt))
       ELSE WanderRandomly(w, a, d)

\* PatrollingEnemy.WANDER_TURNS
WanderTurns == 10

\* A PatrollingEnemy that keeps a target it has found no path to
PatrollingPerformKeepsTarget(w, a, d, crit, ord, pick) ==
    IF w.is_asleep[a] THEN [w |-> w, ok |-> TRUE]
    ELSE
    LET p == w.pos["player"]
        dx == p - w.pos[a]
        distance == Abs(dx)
        st == w.patrol[a]
        detected == PlayerDetected(w, a)
        \* dest_x, dest_y = self.path.pop(0); MovementAction(...).perform()
        step(st0, path) ==
            MovementAction([w EXCEPT !.patrol[a] = [st0 EXCEPT !.path = Tail(path)]], a,
                           <<Head(path) - w.pos[a], 0>>)
    IN IF detected
       THEN IF distance <= AttackRange(a)
            THEN IF RangedAttack(a) THEN RangedAttackAction(w, a, crit, ord)
                 ELSE MeleeAction(w, a, <<dx, 0>>, crit, ord)
            ELSE LET path == GetPathTo(w, a, p)
                 IN IF path # <<>> THEN step(st, path)
                    ELSE [w |-> [w EXCEPT !.patrol[a].path = <<>>], ok |-> TRUE]
       ELSE IF st.wander > 0
       THEN WanderRandomly([w EXCEPT !.patrol[a].wander = @ - 1], a, d)
       ELSE LET st1 == IF st.target = NoTile
                       THEN [st EXCEPT !.target = pick, !.path = <<>>]
                       ELSE st
            IN IF w.pos[a] = st1.target
               THEN WanderRandomly([w EXCEPT !.patrol[a] =
                        [st1 EXCEPT !.target = NoTile, !.wander = WanderTurns]], a, d)
               ELSE LET path == IF st1.path = <<>> THEN GetPathTo(w, a, st1.target)
                                ELSE st1.path
                    IN IF path # <<>> THEN step(st1, path)
                       ELSE WanderRandomly([w EXCEPT !.patrol[a] =
                                [st1 EXCEPT !.path = <<>>]], a, d)

\* PatrollingEnemy.perform; pick is the tile _pick_patrol_target draws
PatrollingPerform(w, a, d, crit, ord, pick) ==
    IF w.is_asleep[a] THEN [w |-> w, ok |-> TRUE]
    ELSE
    LET p == w.pos["player"]
        dx == p - w.pos[a]
        distance == Abs(dx)
        st == w.patrol[a]
        detected == PlayerDetected(w, a)
        \* dest_x, dest_y = self.path.pop(0); MovementAction(...).perform()
        step(st0, path) ==
            MovementAction([w EXCEPT !.patrol[a] = [st0 EXCEPT !.path = Tail(path)]], a,
                           <<Head(path) - w.pos[a], 0>>)
    IN IF detected
       THEN IF distance <= AttackRange(a)
            THEN IF RangedAttack(a) THEN RangedAttackAction(w, a, crit, ord)
                 ELSE MeleeAction(w, a, <<dx, 0>>, crit, ord)
            ELSE LET path == GetPathTo(w, a, p)
                 IN IF path # <<>> THEN step(st, path)
                    ELSE [w |-> [w EXCEPT !.patrol[a].path = <<>>], ok |-> TRUE]
       ELSE IF st.wander > 0
       THEN WanderRandomly([w EXCEPT !.patrol[a].wander = @ - 1], a, d)
       ELSE LET st1 == IF st.target = NoTile
                       THEN [st EXCEPT !.target = pick, !.path = <<>>]
                       ELSE st
            IN IF w.pos[a] = st1.target
               THEN WanderRandomly([w EXCEPT !.patrol[a] =
                        [st1 EXCEPT !.target = NoTile, !.wander = WanderTurns]], a, d)
               ELSE LET path == IF st1.path = <<>> THEN GetPathTo(w, a, st1.target)
                                ELSE st1.path
                    IN IF path # <<>> THEN step(st1, path)
                       ELSE WanderRandomly([w EXCEPT !.patrol[a] =
                                [st1 EXCEPT !.target = NoTile, !.path = <<>>]], a, d)

\* A ConfusedEnemy that stumbles on in its sleep
ConfusedPerformSleepwalks(w, a, d, crit, ord) ==
    IF Head(w.ai[a]).n <= 0
    THEN [w |-> [w EXCEPT !.ai[a] = Tail(@)], ok |-> TRUE]
    ELSE BumpAction(SetHead(w, a, [Head(w.ai[a]) EXCEPT !.n = @ - 1]), a, d, crit, ord)

\* ConfusedEnemy.perform
ConfusedPerform(w, a, d, crit, ord) ==
    IF w.is_asleep[a] THEN [w |-> w, ok |-> TRUE]
    ELSE IF Head(w.ai[a]).n <= 0
    THEN [w |-> [w EXCEPT !.ai[a] = Tail(@)], ok |-> TRUE]
    ELSE BumpAction(SetHead(w, a, [Head(w.ai[a]) EXCEPT !.n = @ - 1]), a, d, crit, ord)

\* entity.ai.perform()
Perform(w, a, d, crit, ord) ==
    CASE Head(w.ai[a]).kind = "hostile" -> HostilePerform(w, a, d, crit, ord)
      [] Head(w.ai[a]).kind = "confused" -> ConfusedPerform(w, a, d, crit, ord)
      [] OTHER -> [w |-> ExplodingPerform(w, a, ord), ok |-> TRUE]

\* ------------------------------------------------------------------ engine.py
\* Engine.update_fov on the open corridor (radius 8 covers it)
UpdateFov(w) ==
    [w EXCEPT !.visible = IF w.is_asleep["player"] THEN {} ELSE Tiles]

\* The statements of a normal Engine.end_turn, in their order
EndTurnOrderAiFirst == <<"ai", "effects", "fov", "turn">>

EndTurnOrder == <<"effects", "ai", "fov", "turn">>

After(step) ==
    LET i == CHOOSE j \in DOMAIN EndTurnOrder : EndTurnOrder[j] = step
    IN IF i = Len(EndTurnOrder) THEN "player" ELSE EndTurnOrder[i + 1]

\* A grant of speed // 100 ticks, without the tick the normal end_turn is
BonusGrantNoMinus(w, bonus) == Speed(w, "player") \div 100

\* The bonus grant at the end of Engine.end_turn
BonusGrant(w, bonus) == (Speed(w, "player") \div 100) - 1

\* The cost of one action opportunity, and a scheduler that charges the
\* actor's speed instead
SpendEnergySpeed(w, e) == [w EXCEPT !.energy[e] = @ - Speed(w, e)]

SpendEnergy(w, e) == [w EXCEPT !.energy[e] = @ - 100]

\* A while loop that stops at 100 energy
MayActAbove(w, e) == w.energy[e] > 100 /\ IsAlive(w, e)

\* A handle_enemy_turns without the except clause: Impossible leaves end_turn
\* and comes back to the handler of the player's action
AfterAiPerformRaise(ok) == IF ok THEN "ai_loop" ELSE "player"

\* Where handle_enemy_turns is after a perform(): "except Impossible: pass"
\* keeps it in the loop
AfterAiPerform(ok) == "ai_loop"

\* The condition of the while loop of handle_enemy_turns
MayAct(w, e) == w.energy[e] >= 100 /\ IsAlive(w, e)

\* The bonus-action branch of Engine.end_turn, and one that also runs the
\* effect ticks
BonusTickWithEffects(w) == UpdateFov(ApplyTimedEffectsTo(w, <<"player">>))

BonusTick(w) == UpdateFov(w)

\* ----------------------------------------------------- the consumables used
ConfusionTurns == {0, 1}
HealAmounts == 1 .. 3

\* ThrowAction._trace_throw_path on the corridor: the tiles of the line from
\* the thrower (left out) to the target, and the first actor on it
RECURSIVE FirstHit(_, _, _, _)
FirstHit(w, x, step, target) ==
    IF x \notin Tiles THEN {}
    ELSE IF ActorsAt(w, x) # {} THEN ActorsAt(w, x)
    ELSE IF x = target THEN {}
    ELSE FirstHit(w, x + step, step, target)

HitActors(w, from, target) ==
    IF target = from THEN {}
    ELSE FirstHit(w, from + (IF target > from THEN 1 ELSE -1),
                  IF target > from THEN 1 ELSE -1, target)

\* ThrowAction.perform with a potion that grants an effect
ThrowPotion(w, a, target, name, duration, ord) ==
    LET hit == HitActors(w, w.pos[a], target)
    IN IF hit = {} THEN [w |-> w, ok |-> TRUE]
       ELSE [w |-> Activate(w, Head(InOrder(ord, hit)), name, duration), ok |-> TRUE]

\* ItemAction.perform with a potion that grants an effect
Quaff(w, a, name, duration) == [w |-> Activate(w, a, name, duration), ok |-> TRUE]

\* HealingConsumable.activate
HealingActivate(w, a, amount, unidentified, ord) ==
    LET h == Heal(w, a, amount, ord)
    IN [w |-> h.w, ok |-> h.ret > 0 \/ unidentified]

\* ConfusionConsumable.activate (the corridor is lit: a target tile the
\* player cannot see is one chosen while visible is empty)
ConfusionActivate(w, a, target, turns, ord) ==
    IF target \notin w.visible \/ ActorsAt(w, target) = {}
    THEN [w |-> w, ok |-> FALSE]
    ELSE LET t == Head(InOrder(ord, ActorsAt(w, target)))
         IN IF t = a THEN [w |-> w, ok |-> FALSE]
            ELSE [w |-> [w EXCEPT !.ai[t] = <<ConfusedAI(turns)>> \o @], ok |-> TRUE]

\* ------------------------------------------- input_handlers.py handle_action
\* What follows perform(): end_turn when it returned, nothing when it raised
\* Impossible; and a handler that ends the turn all the same
AfterPerformAlways(ok) == "end_turn"

AfterPerform(ok) == IF ok THEN "end_turn" ELSE "player"

Zeros == [a \in Actors |-> 0]

\* The record kept of the last operation: its name, whether it returned (ok)
\* or raised Impossible, and for take_damage and heal the actor, the amount
\* passed and the value returned.
Did(name, ok) == [op |-> name, ok |-> ok, who |-> NoActor, arg |-> 0, ret |-> 0]

\* The actions whose name the record keeps when they succeed
Kept == {"quaff1"}

\* EventHandler.handle_action up to the call of end_turn, for the action
\* whose perform() gave r
HandleAction(r, name) ==
    /\ SetWorld(r.w)
    /\ pc' = AfterPerform(r.ok)
    /\ last' = Did(IF r.ok /\ name \notin Kept THEN "action" ELSE name, r.ok)
    /\ UNCHANGED <<turn, bonus_actions, snapshot, cur, log, performs, pass_energy,
                   grant_speed>>

\* The player may act: MainGameEventHandler gives the living player every
\* action, and the sleeping player only the wait.
PlayerTurn == pc = "player" /\ IsAlive(World, "player") /\ turn < MaxTurn
PlayerAwake == PlayerTurn /\ ~is_asleep["player"]

PlayerWait == PlayerTurn /\ HandleAction([w |-> World, ok |-> TRUE], "wait")

PlayerBump ==
    /\ PlayerAwake
    /\ \E d \in Directions, crit \in BOOLEAN, ord \in Orders(World) :
          HandleAction(BumpAction(World, "player", d, crit, ord), "bump")

PlayerQuaff ==
    /\ PlayerAwake
    /\ Len(effects["player"]) < MaxEffects
    /\ \E name \in EffectNames, duration \in 1 .. MaxDuration :
          HandleAction(Quaff(World, "player", name, duration),
                       IF duration = 1 THEN "quaff1" ELSE "quaff")

PlayerThrow ==
    /\ PlayerAwake
    /\ \E target \in Tiles, name \in ThrownNames, duration \in {MaxDuration},
          ord \in Orders(World) :
          /\ \A a \in HitActors(World, pos["player"], target) :
                Len(effects[a]) < MaxEffects
          /\ HandleAction(ThrowPotion(World, "player", target, name, duration, ord),
                          "throw")

PlayerHeal ==
    /\ PlayerAwake
    /\ \E amount \in HealAmounts, unidentified \in BOOLEAN, ord \in Orders(World) :
          HandleAction(HealingActivate(World, "player", amount, unidentified, ord),
                       "heal")

PlayerConfuse ==
    /\ PlayerAwake
    /\ \E target \in Tiles, turns \in ConfusionTurns, ord \in Orders(World) :
          /\ \A a \in ActorsAt(World, target) : Len(ai[a]) < 2
          /\ HandleAction(ConfusionActivate(World, "player", target, turns, ord),
                          "confuse")

\* ------------------------------------------------------- Engine.end_turn
\* end_turn has been called and is at statement `step`
At(step) ==
    \/ pc = step
    \/ pc = "end_turn" /\ bonus_actions <= 0 /\ EndTurnOrder[1] = step

LogSoFar == IF pc = "end_turn" THEN <<>> ELSE log

\* if self._bonus_actions > 0: ...; return
EndTurnBonus ==
    /\ pc = "end_turn"
    /\ bonus_actions > 0
    /\ bonus_actions' = bonus_actions - 1
    /\ SetWorld(BonusTick(World))
    /\ pc' = "player"
    /\ log' = <<"bonus", "fov">>
    /\ last' = Did("end_turn", TRUE)
    /\ UNCHANGED <<turn, snapshot, cur, performs, pass_energy, grant_speed>>

\* self.apply_timed_effects()
EndTurnEffects ==
    /\ At("effects")
    /\ \E ord \in Orders(World) : SetWorld(ApplyTimedEffects(World, ord))
    /\ pc' = After("effects")
    /\ log' = Append(LogSoFar, "effects")
    /\ UNCHANGED <<turn, bonus_actions, snapshot, cur, performs, pass_energy,
                   grant_speed, last>>

\* self.handle_enemy_turns(): the set of the for loop is built
EnemyTurnsBegin ==
    /\ At("ai")
    /\ snapshot' = ActorsOf(World) \ {"player"}
    /\ cur' = NoActor
    /\ performs' = Zeros
    /\ pass_energy' = energy
    /\ pc' = "ai_loop"
    /\ log' = Append(LogSoFar, "ai")
    /\ SetWorld(World)
    /\ UNCHANGED <<turn, bonus_actions, grant_speed, last>>

\* An energy grant made without looking at entity.ai
GrantEnergyAlways(w, e) == [w EXCEPT !.energy[e] = @ + Speed(w, e)]

\* if entity.ai: entity.energy += entity.speed
GrantEnergy(w, e) ==
    IF IsAlive(w, e) THEN [w EXCEPT !.energy[e] = @ + Speed(w, e)] ELSE w

\* the for loop takes its next entity: if entity.ai: entity.energy += entity.speed
EnemyTurnsNext ==
    /\ pc = "ai_loop"
    /\ cur = NoActor
    /\ \E e \in snapshot :
          LET w1 == GrantEnergy(World, e)
          IN /\ snapshot' = snapshot \ {e}
             /\ SetWorld(w1)
             /\ cur' = IF IsAlive(w1, e) /\ MayAct(w1, e) THEN e ELSE NoActor
    /\ UNCHANGED <<turn, bonus_actions, pc, log, performs, pass_energy, grant_speed,
                   last>>

\* one round of the while loop: entity.energy -= 100; entity.ai.perform(),
\* Impossible ignored
EnemyTurnsPerform ==
    /\ pc = "ai_loop"
    /\ cur # NoActor
    /\ \E d \in Directions, crit \in BOOLEAN, ord \in Orders(World) :
          LET r == Perform(SpendEnergy(World, cur), cur, d, crit, ord)
          IN /\ SetWorld(r.w)
             /\ cur' = IF MayAct(r.w, cur) THEN cur ELSE NoActor
             /\ last' = Did("perform", r.ok)
             /\ pc' = AfterAiPerform(r.ok)
    /\ performs' = [performs EXCEPT ![cur] = @ + 1]
    /\ UNCHANGED <<turn, bonus_actions, log, snapshot, pass_energy, grant_speed>>

\* the for loop is over
EnemyTurnsEnd ==
    /\ pc = "ai_loop"
    /\ cur = NoActor
    /\ snapshot = {}
    /\ pc' = After("ai")
    /\ SetWorld(World)
    /\ UNCHANGED <<turn, bonus_actions, log, snapshot, cur, performs, pass_energy,
                   grant_speed, last>>

\* self.update_fov()
EndTurnFov ==
    /\ At("fov")
    /\ SetWorld(UpdateFov(World))
    /\ pc' = After("fov")
    /\ log' = Append(LogSoFar, "fov")
    /\ UNCHANGED <<turn, bonus_actions, snapshot, cur, performs, pass_energy,
                   grant_speed, last>>

\* self.turn += 1; self._bonus_actions = (self.player.speed // 100) - 1
EndTurnTurn ==
    /\ At("turn")
    /\ turn' = turn + 1
    /\ bonus_actions' = BonusGrant(World, bonus_actions)
    /\ grant_speed' = Speed(World, "player")
    /\ pc' = After("turn")
    /\ log' = Append(LogSoFar, "turn")
    /\ performs' = Zeros
    /\ pass_energy' = Zeros
    /\ last' = Did("end_turn", TRUE)
    /\ SetWorld(World)
    /\ UNCHANGED <<snapshot, cur>>

\* ------------------------------------------------------- the specification
Placements ==
    {p \in [Actors -> Tiles] : p["player"] = 0 /\ p["m1"] < p["m2"] /\ p["m1"] > 0}

Init ==
    /\ hp = [a \in Actors |-> MaxHpOf(a)]
    /\ ai = [a \in Actors |-> <<HostileAI>>]
    /\ render_order = [a \in Actors |-> "ACTOR"]
    /\ blocks_movement = [a \in Actors |-> TRUE]
    /\ entities = Actors
    /\ pos \in Placements
    /\ effects = [a \in Actors |-> <<>>]
    /\ is_asleep = [a \in Actors |-> FALSE]
    /\ is_hasted = [a \in Actors |-> FALSE]
    /\ is_invisible = [a \in Actors |-> FALSE]
    /\ energy = Zeros
    /\ turn = 1
    /\ bonus_actions = 0
    /\ visible = Tiles
    /\ kill_counts = Zeros
    /\ xp_awards = Zeros
    /\ death_msgs = Zeros
    /\ death_explosion = [a \in Actors |-> a = "m1"]
    /\ tiles = OpenCorridor
    /\ secret_doors = {}
    /\ booms = Zeros
    /\ hits = Zeros
    /\ wake_msgs = Zeros
    /\ hurt_asleep = FALSE
    /\ roll = NoRoll
    /\ inventory = <<>>
    /\ floor = <<>>
    /\ thrown = NoThrow
    /\ base_power = Whole(BasePower("player"))
    /\ calm_power = base_power
    /\ defense_bonus = [a \in Actors |-> 0]
    /\ run = NoRun
    /\ noticed = [a \in Actors |-> FALSE]
    /\ patrol = [a \in Actors |-> NoPatrol]
    /\ grid = NoGrid
    /\ xy = <<0, 0>>
    /\ names = PlainNames
    /\ pc = "player"
    /\ snapshot = {}
    /\ cur = NoActor
    /\ log = <<>>
    /\ performs = Zeros
    /\ pass_energy = Zeros
    /\ grant_speed = 100
    /\ last = Did("new_game", TRUE)

Next ==
    \/ PlayerWait
    \/ PlayerBump
    \/ PlayerQuaff
    \/ PlayerThrow
    \/ PlayerHeal
    \/ PlayerConfuse
    \/ EndTurnBonus
    \/ EndTurnEffects
    \/ EnemyTurnsBegin
    \/ EnemyTurnsNext
    \/ EnemyTurnsPerform
    \/ EnemyTurnsEnd
    \/ EndTurnFov
    \/ EndTurnTurn

Spec == Init /\ [][Next]_vars

\* ---------------------------------------------------------------------------
\* The specification of the turns that never stop: the player moves, fights,
\* drinks, throws and waits, and goes on waiting after the turns the model counts; Engine.turn
\* is not followed beyond MaxTurn. The player who is alive always ends up
\* taking a turn, and a running end_turn call runs to its end.
PlayerWaitOn ==
    /\ pc = "player"
    /\ IsAlive(World, "player")
    /\ turn >= MaxTurn
    /\ HandleAction([w |-> World, ok |-> TRUE], "wait")

EndTurnTurnCounted == turn < MaxTurn /\ EndTurnTurn

EndTurnTurnOn ==
    /\ At("turn")
    /\ turn >= MaxTurn
    /\ turn' = turn
    /\ bonus_actions' = BonusGrant(World, bonus_actions)
    /\ grant_speed' = Speed(World, "player")
    /\ pc' = After("turn")
    /\ log' = Append(LogSoFar, "turn")
    /\ performs' = Zeros
    /\ pass_energy' = Zeros
    /\ last' = Did("end_turn", TRUE)
    /\ SetWorld(World)
    /\ UNCHANGED <<snapshot, cur>>

\* the steps of a running end_turn call, but for apply_timed_effects and the
\* perform() calls
EndTurnSteps ==
    \/ EndTurnBonus
    \/ EnemyTurnsBegin
    \/ EnemyTurnsNext
    \/ EnemyTurnsEnd
    \/ EndTurnFov
    \/ EndTurnTurnCounted
    \/ EndTurnTurnOn

\* the perform() call the while loop is about to make, as the count of
\* perform() calls shows it
PerformDue ==
    /\ pc = "ai_loop"
    /\ cur # NoActor
    /\ performs' = [performs EXCEPT ![cur] = @ + 1]

\* the apply_timed_effects call end_turn is about to make, as the position
\* of the program shows it
EffectsDue == At("effects") /\ pc' = After("effects")

NextLive ==
    \/ PlayerWait
    \/ PlayerBump
    \/ PlayerQuaff
    \/ PlayerThrow
    \/ PlayerWaitOn
    \/ EndTurnSteps
    \/ EndTurnEffects
    \/ EnemyTurnsPerform

SpecLive ==
    /\ Init
    /\ [][NextLive]_vars
    /\ WF_vars(PlayerWait \/ PlayerWaitOn)
    /\ WF_vars(EndTurnSteps)
    /\ WF_pc(EffectsDue)
    /\ WF_performs(PerformDue)

\* ---------------------------------------------------------------------------
\* The combat specification: damage, heal and corpse countdown in any order,
\* on any placement of the actors and any choice of death explosions, without
\* the scheduler (pc stays "combat").
DamageAmounts == 1 .. 3

\* consumable.py BombConsumable.explode / FireballDamageConsumable.activate:
\* "for actor in game_map.actors" runs over the live set of entities, taking
\* the living ones as it meets them; once an explosion in the body has removed
\* a corpse from the set, the next step of the iterator raises RuntimeError
\* and the loop is left.
RECURSIVE BlastLoop(_, _, _, _, _)
BlastLoop(w, targets, x, size, ord) ==
    IF targets = <<>> \/ Cardinality(w.entities) # size THEN w
    ELSE LET t == Head(targets)
             w1 == IF t \in ActorsOf(w) /\ WithinDistance(w, t, x, DeathExplosion.radius)
                   THEN TakeDamage(w, t, DeathExplosion.damage, ord)
                   ELSE w
         IN BlastLoop(w1, Tail(targets), x, size, ord)

Blast(w, x, ord) == BlastLoop(w, InOrder(ord, w.entities), x, Cardinality(w.entities), ord)

CombatFrame ==
    UNCHANGED <<turn, bonus_actions, pc, snapshot, cur, log, performs, pass_energy,
                grant_speed>>

\* take_damage from a thrown weapon, a lightning bolt or an attack
CombatDamage ==
    /\ pc = "combat"
    /\ IsAlive(World, "player")
    /\ \E a \in ActorsOf(World), amount \in DamageAmounts, ord \in Orders(World) :
          /\ SetWorld(TakeDamage(World, a, amount, ord))
          /\ last' = [Did("take_damage", TRUE) EXCEPT !.who = a, !.arg = amount]
    /\ CombatFrame

\* a bomb or a fireball going off at tile x
CombatBlast ==
    /\ pc = "combat"
    /\ IsAlive(World, "player")
    /\ \E x \in Tiles, ord \in Orders(World) :
          /\ SetWorld(Blast(World, x, ord))
          /\ last' = Did("blast", TRUE)
    /\ CombatFrame

\* heal from a healing potion, drunk or thrown
CombatHeal ==
    /\ pc = "combat"
    /\ IsAlive(World, "player")
    /\ \E a \in ActorsOf(World), amount \in HealAmounts, ord \in Orders(World) :
          LET h == Heal(World, a, amount, ord)
          IN /\ SetWorld(h.w)
             /\ last' = [Did("heal", TRUE) EXCEPT !.who = a, !.arg = amount, !.ret = h.ret]
    /\ CombatFrame

\* perform() of the AI of a primed corpse: the countdown, then the explosion
CombatTick ==
    /\ pc = "combat"
    /\ \E c \in {a \in ActorsOf(World) : IsExploding(World, a)}, ord \in Orders(World) :
          /\ SetWorld(ExplodingPerform(World, c, ord))
          /\ last' = [Did("perform", TRUE) EXCEPT !.who = c]
    /\ CombatFrame

CombatPlacements ==
    {p \in [Actors -> Tiles] : p["player"] = 0 /\ p["m1"] # p["m2"] /\ p["m1"] > 0
                               /\ p["m2"] > 0}

InitCombat ==
    /\ hp = [a \in Actors |-> MaxHpOf(a)]
    /\ ai = [a \in Actors |-> <<HostileAI>>]
    /\ render_order = [a \in Actors |-> "ACTOR"]
    /\ blocks_movement = [a \in Actors |-> TRUE]
    /\ entities = Actors
    /\ pos \in CombatPlacements
    /\ effects = [a \in Actors |-> <<>>]
    /\ is_asleep = [a \in Actors |-> FALSE]
    /\ is_hasted = [a \in Actors |-> FALSE]
    /\ is_invisible = [a \in Actors |-> FALSE]
    /\ energy = Zeros
    /\ turn = 1
    /\ bonus_actions = 0
    /\ visible = Tiles
    /\ kill_counts = Zeros
    /\ xp_awards = Zeros
    /\ death_msgs = Zeros
    /\ death_explosion \in {f \in [Actors -> BOOLEAN] : ~f["player"]}
    /\ tiles = OpenCorridor
    /\ secret_doors = {}
    /\ booms = Zeros
    /\ hits = Zeros
    /\ wake_msgs = Zeros
    /\ hurt_asleep = FALSE
    /\ roll = NoRoll
    /\ inventory = <<>>
    /\ floor = <<>>
    /\ thrown = NoThrow
    /\ base_power = Whole(BasePower("player"))
    /\ calm_power = base_power
    /\ defense_bonus = [a \in Actors |-> 0]
    /\ run = NoRun
    /\ noticed = [a \in Actors |-> FALSE]
    /\ patrol = [a \in Actors |-> NoPatrol]
    /\ grid = NoGrid
    /\ xy = <<0, 0>>
    /\ names = PlainNames
    /\ pc = "combat"
    /\ snapshot = {}
    /\ cur = NoActor
    /\ log = <<>>
    /\ performs = Zeros
    /\ pass_energy = Zeros
    /\ grant_speed = 100
    /\ last = Did("new_game", TRUE)

NextCombat ==
    \/ CombatDamage
    \/ CombatBlast
    \/ CombatHeal
    \/ CombatTick

SpecCombat == InitCombat /\ [][NextCombat]_vars

\* ---------------------------------------------------------------------------
\* The map specification: the movement, attack and door actions of any actor
\* in any order, on a corridor with walls, doors and secret doors, without the
\* scheduler (pc stays "map").
Maps == {t \in [Tiles -> TileKinds] : t[0] = "floor" /\ t[1] = "floor"}

\* The actors that act on the map; the other monster stands in the way.
MapActors(w) == ActorsOf(w) \ {"m2"}

\* The directions tried on the map: both ways along the corridor, and two
\* that leave it.
MapDirections == {<<-1, 0>>, <<1, 0>>, <<0, 1>>, <<1, 1>>}

MapFrame ==
    UNCHANGED <<turn, bonus_actions, pc, snapshot, cur, log, performs, pass_energy,
                grant_speed>>

\* The result r of the action `name` performed by actor a
MapDone(r, name, a) ==
    /\ SetWorld(r.w)
    /\ last' = Did(name, r.ok)
    /\ MapFrame

MapMove ==
    /\ pc = "map"
    /\ \E a \in MapActors(World), d \in MapDirections :
          MapDone(MovementAction(World, a, d), "move", a)

\* MeleeAction.perform; the record keeps the defender and the resolved damage
MapMelee ==
    /\ pc = "map"
    /\ \E a \in MapActors(World), d \in MapDirections, crit \in BOOLEAN,
          ord \in Orders(World) :
          LET target == MeleeTarget(World, a, d, ord)
          IN /\ SetWorld(MeleeAction(World, a, d, crit, ord).w)
             /\ last' = [Did("melee", MeleeAction(World, a, d, crit, ord).ok)
                           EXCEPT !.who = target,
                                  !.arg = MeleeDamage(World, a, target, crit)]
             /\ MapFrame

\* BumpAction.perform; the record keeps the actor, the x of its destination
\* and the dy of its direction
MapBump ==
    /\ pc = "map"
    /\ \E a \in MapActors(World), d \in MapDirections, crit \in BOOLEAN,
          ord \in Orders(World) :
          LET r == BumpAction(World, a, d, crit, ord)
          IN /\ SetWorld(r.w)
             /\ last' = [Did("bump", r.ok) EXCEPT !.who = a, !.arg = pos[a] + d[1],
                                                  !.ret = d[2]]
             /\ MapFrame

MapOpenDoor ==
    /\ pc = "map"
    /\ \E a \in MapActors(World), x \in Tiles \cup {NoTile}, dy \in {0, 1} :
          MapDone(OpenDoorAction(World, a, x, dy), "open", a)

MapCloseDoor ==
    /\ pc = "map"
    /\ \E a \in MapActors(World), x \in Tiles \cup {NoTile}, dy \in {0, 1} :
          MapDone(CloseDoorAction(World, a, x, dy), "close", a)

InitMap ==
    /\ hp = [a \in Actors |-> MaxHpOf(a)]
    /\ ai = [a \in Actors |-> <<HostileAI>>]
    /\ render_order = [a \in Actors |-> "ACTOR"]
    /\ blocks_movement = [a \in Actors |-> TRUE]
    /\ entities = Actors
    /\ pos \in Placements
    /\ effects = [a \in Actors |-> <<>>]
    /\ is_asleep = [a \in Actors |-> FALSE]
    /\ is_hasted = [a \in Actors |-> FALSE]
    /\ is_invisible = [a \in Actors |-> FALSE]
    /\ energy = Zeros
    /\ turn = 1
    /\ bonus_actions = 0
    /\ visible = Tiles
    /\ kill_counts = Zeros
    /\ xp_awards = Zeros
    /\ death_msgs = Zeros
    /\ death_explosion = [a \in Actors |-> a = "m1"]
    /\ tiles \in {t \in Maps : \A a \in Actors : Walkable(t[pos[a]])}
    /\ secret_doors \in SUBSET {x \in Tiles : tiles[x] = "wall"}
    /\ booms = Zeros
    /\ hits = Zeros
    /\ wake_msgs = Zeros
    /\ hurt_asleep = FALSE
    /\ roll = NoRoll
    /\ inventory = <<>>
    /\ floor = <<>>
    /\ thrown = NoThrow
    /\ base_power = Whole(BasePower("player"))
    /\ calm_power = base_power
    /\ defense_bonus = [a \in Actors |-> 0]
    /\ run = NoRun
    /\ noticed = [a \in Actors |-> FALSE]
    /\ patrol = [a \in Actors |-> NoPatrol]
    /\ grid = NoGrid
    /\ xy = <<0, 0>>
    /\ names = PlainNames
    /\ pc = "map"
    /\ snapshot = {}
    /\ cur = NoActor
    /\ log = <<>>
    /\ performs = Zeros
    /\ pass_energy = Zeros
    /\ grant_speed = 100
    /\ last = Did("new_game", TRUE)

NextMap ==
    \/ MapMove
    \/ MapMelee
    \/ MapBump
    \/ MapOpenDoor
    \/ MapCloseDoor

SpecMap == InitMap /\ [][NextMap]_vars

\* ---------------------------------------------------------------------------
\* The throw specification: the player throws the items of its inventory along
\* a longer corridor with walls, without the scheduler (pc stays "throw").

\* Item templates (data/items.json is read by ItemManager.load): a potion of
\* sleep, a bomb, a dagger made for throwing and a sword.
ItemNames == {"potion", "bomb", "dagger", "sword"}
ConsumableOf(name) ==
    CASE name = "potion" -> "SleepConsumable"
      [] name = "bomb" -> "BombConsumable"
      [] OTHER -> "none"
EquipmentTypeOf(name) ==
    CASE name = "dagger" -> "THROWN"
      [] name = "sword" -> "WEAPON"
      [] OTHER -> "none"
PowerBonusOf(name) == IF name = "sword" THEN 4 ELSE 1

\* Item.stackable
Stackable(name) ==
    IF EquipmentTypeOf(name) = "THROWN" THEN TRUE
    ELSE ConsumableOf(name) # "none" /\ EquipmentTypeOf(name) = "none"

\* ThrowAction.MAX_RANGE
MaxRange == 10

\* ThrowAction._compute_damage
ThrowDamage(name) ==
    IF EquipmentTypeOf(name) = "THROWN" THEN PowerBonusOf(name)
    ELSE IF EquipmentTypeOf(name) = "WEAPON" THEN Max(1, PowerBonusOf(name) \div 2)
    ELSE 1

\* GameMap.in_bounds on the corridor of the map w
MapInBounds(w, x) == x \in DOMAIN w.tiles

\* The loop of ThrowAction._trace_throw_path: x is line[i], n the length of
\* the line without the thrower's tile, final the last tile passed. It gives
\* the landing tile, the actors get_actor_at_location may return there, and
\* why the loop ended.
RECURSIVE TraceLoopNoWalls(_, _, _, _, _, _)
TraceLoopNoWalls(w, i, x, step, n, final) ==
    IF i >= n THEN [x |-> final, hit |-> {}, stop |-> "target"]
    ELSE IF i >= MaxRange THEN [x |-> final, hit |-> {}, stop |-> "range"]
    ELSE IF ~MapInBounds(w, x) THEN [x |-> final, hit |-> {}, stop |-> "bounds"]
    ELSE IF ActorsAt(w, x) # {} THEN [x |-> x, hit |-> ActorsAt(w, x), stop |-> "actor"]
    ELSE TraceLoopNoWalls(w, i + 1, x + step, step, n, x)

RECURSIVE TraceLoop(_, _, _, _, _, _)
TraceLoop(w, i, x, step, n, final) ==
    IF i >= n THEN [x |-> final, hit |-> {}, stop |-> "target"]
    ELSE IF i >= MaxRange THEN [x |-> final, hit |-> {}, stop |-> "range"]
    ELSE IF ~MapInBounds(w, x) THEN [x |-> final, hit |-> {}, stop |-> "bounds"]
    ELSE IF ~Walkable(w.tiles[x]) THEN [x |-> final, hit |-> {}, stop |-> "wall"]
    ELSE IF ActorsAt(w, x) # {} THEN [x |-> x, hit |-> ActorsAt(w, x), stop |-> "actor"]
    ELSE TraceLoop(w, i + 1, x + step, step, n, x)

\* ThrowAction._trace_throw_path from tile sx to the target tile tx
TraceThrowPath(w, sx, tx) ==
    LET step == IF tx >= sx THEN 1 ELSE -1
    IN TraceLoop(w, 0, sx + step, step, Abs(tx - sx), sx)

\* The stack of the floor a thrown item merges into: a same-name item on the
\* same tile (0 when there is none)
MergeInto(fl, name, x) ==
    IF \E j \in 1 .. Len(fl) : fl[j].name = name /\ fl[j].x = x
    THEN CHOOSE j \in 1 .. Len(fl) : fl[j].name = name /\ fl[j].x = x
    ELSE 0

\* A merge that overwrites the count of the stack on the floor
PlaceThrownItemOverwrite(w, item, x) ==
    LET j == MergeInto(w.floor, item.name, x)
    IN IF Stackable(item.name) /\ j # 0
       THEN [w EXCEPT !.floor[j].stack_count = item.stack_count,
                      !.thrown.fate = "merged"]
       ELSE [w EXCEPT !.floor = Append(@, [name |-> item.name, x |-> x,
                                            stack_count |-> item.stack_count]),
                      !.thrown.fate = "placed"]

\* ThrowAction._place_thrown_item
PlaceThrownItem(w, item, x) ==
    LET j == MergeInto(w.floor, item.name, x)
    IN IF Stackable(item.name) /\ j # 0
       THEN [w EXCEPT !.floor[j].stack_count = @ + item.stack_count,
                      !.thrown.fate = "merged"]
       ELSE [w EXCEPT !.floor = Append(@, [name |-> item.name, x |-> x,
                                            stack_count |-> item.stack_count]),
                      !.thrown.fate = "placed"]

\* ThrowAction._apply_consumable_effect
ApplyConsumableEffect(w, name, target, x, ord) ==
    IF ConsumableOf(name) = "BombConsumable"
    THEN [Blast(w, x, ord) EXCEPT !.thrown.fate = "exploded"]
    ELSE [Activate(w, target, "Sleep", MaxDuration) EXCEPT !.thrown.fate = "applied"]

\* ThrowAction.perform: actor a throws the item at index i of its inventory
\* at the tile tx
ThrowPerform(w, a, i, tx, ord) ==
    LET item == w.inventory[i]
        name == item.name
        tr == TraceThrowPath(w, w.pos[a], tx)
        hit_actor == IF tr.hit = {} THEN NoActor ELSE Head(InOrder(ord, tr.hit))
        split == Stackable(name) /\ item.stack_count > 1
        thrown_item == IF split THEN [item EXCEPT !.stack_count = 1] ELSE item
        w1 == [w EXCEPT !.inventory = IF split THEN [@ EXCEPT ![i].stack_count = @ - 1]
                                       ELSE RemoveAt(@, i),
                        !.thrown = [name |-> name, from |-> w.pos[a], target |-> tx,
                                    x |-> tr.x, hit |-> hit_actor, stop |-> tr.stop,
                                    fate |-> "none"]]
        consumable == ConsumableOf(name) # "none"
        bomb == ConsumableOf(name) = "BombConsumable"
    IN IF hit_actor # NoActor
       THEN IF consumable
            THEN ApplyConsumableEffect(w1, name, hit_actor, w1.pos[hit_actor], ord)
            ELSE PlaceThrownItem(TakeDamage(w1, hit_actor, ThrowDamage(name), ord),
                                 thrown_item, tr.x)
       ELSE IF ~Walkable(w.tiles[tr.x]) /\ consumable
            THEN IF bomb THEN ApplyConsumableEffect(w1, name, NoActor, tr.x, ord)
                 ELSE [w1 EXCEPT !.thrown.fate = "broke"]
       ELSE IF bomb THEN ApplyConsumableEffect(w1, name, NoActor, tr.x, ord)
       ELSE PlaceThrownItem(w1, thrown_item, tr.x)

ThrowTiles == 0 .. 12
\* the corridor with no wall, or with one
ThrowMaps ==
    {t \in [ThrowTiles -> {"floor", "wall"}] :
        /\ Cardinality({x \in ThrowTiles : t[x] = "wall"}) <= 1
        /\ \A x \in ThrowTiles : t[x] = "wall" => x \in {3, 6, 12}}
ThrowPlacements ==
    {p \in [Actors -> ThrowTiles] :
        p["player"] = 1 /\ p["m1"] \in {0, 2, 4} /\ p["m2"] \in {5, 11}}
Inventories ==
    {<<[name |-> "potion", stack_count |-> 2], [name |-> "dagger", stack_count |-> 1]>>,
     <<[name |-> "bomb", stack_count |-> 1], [name |-> "sword", stack_count |-> 1],
       [name |-> "sword", stack_count |-> 1]>>,
     <<[name |-> "dagger", stack_count |-> 2], [name |-> "bomb", stack_count |-> 1]>>}
Floors == {<<>>, <<[name |-> "dagger", x |-> 2, stack_count |-> 1]>>}
\* the targets: the far ends of the eight-way throw, the thrower's own tile
\* and tiles picked with the cursor
ThrowTargets(sx) == {sx - MaxRange, sx, sx + 1, sx + 4, sx + MaxRange, sx + MaxRange + 1}

ThrowItem ==
    /\ pc = "throw"
    /\ IsAlive(World, "player")
    /\ \E i \in 1 .. Len(inventory), tx \in ThrowTargets(pos["player"]),
          ord \in Orders(World) :
          /\ \A a \in TraceThrowPath(World, pos["player"], tx).hit :
                Len(effects[a]) < MaxEffects
          /\ SetWorld(ThrowPerform(World, "player", i, tx, ord))
          /\ last' = Did("throw", TRUE)
    /\ CombatFrame

InitThrow ==
    /\ hp = [a \in Actors |-> MaxHpOf(a)]
    /\ ai = [a \in Actors |-> <<HostileAI>>]
    /\ render_order = [a \in Actors |-> "ACTOR"]
    /\ blocks_movement = [a \in Actors |-> TRUE]
    /\ entities = Actors
    /\ pos \in ThrowPlacements
    /\ effects = [a \in Actors |-> <<>>]
    /\ is_asleep = [a \in Actors |-> FALSE]
    /\ is_hasted = [a \in Actors |-> FALSE]
    /\ is_invisible = [a \in Actors |-> FALSE]
    /\ energy = Zeros
    /\ turn = 1
    /\ bonus_actions = 0
    /\ visible = Tiles
    /\ kill_counts = Zeros
    /\ xp_awards = Zeros
    /\ death_msgs = Zeros
    /\ death_explosion = [a \in Actors |-> a = "m1"]
    /\ tiles \in ThrowMaps
    /\ secret_doors = {}
    /\ booms = Zeros
    /\ hits = Zeros
    /\ wake_msgs = Zeros
    /\ hurt_asleep = FALSE
    /\ roll = NoRoll
    /\ inventory \in Inventories
    /\ floor \in Floors
    /\ thrown = NoThrow
    /\ base_power = Whole(BasePower("player"))
    /\ calm_power = base_power
    /\ defense_bonus = [a \in Actors |-> 0]
    /\ run = NoRun
    /\ noticed = [a \in Actors |-> FALSE]
    /\ patrol = [a \in Actors |-> NoPatrol]
    /\ grid = NoGrid
    /\ xy = <<0, 0>>
    /\ names = PlainNames
    /\ pc = "throw"
    /\ snapshot = {}
    /\ cur = NoActor
    /\ log = <<>>
    /\ performs = Zeros
    /\ pass_energy = Zeros
    /\ grant_speed = 100
    /\ last = Did("new_game", TRUE)

NextThrow == ThrowItem

SpecThrow == InitThrow /\ [][NextThrow]_vars

\* ---------------------------------------------------------------------------
\* The rage specification: Rage effects activated on the player and expiring
\* in any order, without the scheduler (pc stays "rage").
MaxRages == 3

RECURSIVE Gcd(_, _)
Gcd(a, b) == IF b = 0 THEN a ELSE Gcd(b, a % b)
Fraction(n, d) == [num |-> n \div Gcd(n, d), den |-> d \div Gcd(n, d)]

\* round() of Python on a fraction that is not negative: to the nearest
\* integer, a tie to the even one
Round(x) ==
    LET q == x.num \div x.den
        r == x.num % x.den
    IN IF 2 * r < x.den THEN q
       ELSE IF 2 * r > x.den THEN q + 1
       ELSE IF q % 2 = 0 THEN q ELSE q + 1

\* The multipliers a RageConsumable may carry (its amount), as fractions:
\* 2, 1.5 and 1.25
RageMults == {Whole(2), [num |-> 3, den |-> 2], [num |-> 5, den |-> 4]}
RageDuration == 10
RageEffect(m) == [name |-> "Rage", max_turns |-> RageDuration,
                  turns_left |-> RageDuration, dmg_mult |-> m]

\* consumer.effects.append(eff); eff.parent = consumer; eff.activate() for a
\* RageEffect: base_power *= dmg_mult
RageActivate(w, a, m) ==
    [w EXCEPT !.effects[a] = Append(@, RageEffect(m)),
              !.base_power = Fraction(@.num * m.num, @.den * m.den),
              !.calm_power = IF w.effects[a] = <<>> THEN w.base_power ELSE @]

\* RageEffect.expire of the effect at index i of a's list:
\* base_power = round(base_power / dmg_mult), then effects.remove(self)
RageExpire(w, a, i) ==
    LET m == w.effects[a][i].dmg_mult
    IN [w EXCEPT !.base_power = Whole(Round(Fraction(@.num * m.den, @.den * m.num))),
                 !.effects[a] = RemoveAt(@, i)]

BasePowers == 1 .. 3

RageQuaff ==
    /\ pc = "rage"
    /\ Len(effects["player"]) < MaxRages
    /\ \E m \in RageMults : SetWorld(RageActivate(World, "player", m))
    /\ last' = Did("rage", TRUE)
    /\ CombatFrame

RageEnd ==
    /\ pc = "rage"
    /\ \E i \in 1 .. Len(effects["player"]) : SetWorld(RageExpire(World, "player", i))
    /\ last' = Did("expire", TRUE)
    /\ CombatFrame

InitRage ==
    /\ hp = [a \in Actors |-> MaxHpOf(a)]
    /\ ai = [a \in Actors |-> <<HostileAI>>]
    /\ render_order = [a \in Actors |-> "ACTOR"]
    /\ blocks_movement = [a \in Actors |-> TRUE]
    /\ entities = Actors
    /\ pos = [a \in Actors |-> CASE a = "player" -> 0 [] a = "m1" -> 1 [] OTHER -> 2]
    /\ effects = [a \in Actors |-> <<>>]
    /\ is_asleep = [a \in Actors |-> FALSE]
    /\ is_hasted = [a \in Actors |-> FALSE]
    /\ is_invisible = [a \in Actors |-> FALSE]
    /\ energy = Zeros
    /\ turn = 1
    /\ bonus_actions = 0
    /\ visible = Tiles
    /\ kill_counts = Zeros
    /\ xp_awards = Zeros
    /\ death_msgs = Zeros
    /\ death_explosion = [a \in Actors |-> a = "m1"]
    /\ tiles = OpenCorridor
    /\ secret_doors = {}
    /\ booms = Zeros
    /\ hits = Zeros
    /\ wake_msgs = Zeros
    /\ hurt_asleep = FALSE
    /\ roll = NoRoll
    /\ inventory = <<>>
    /\ floor = <<>>
    /\ thrown = NoThrow
    /\ \E b \in BasePowers : base_power = Whole(b)
    /\ calm_power = base_power
    /\ defense_bonus = [a \in Actors |-> 0]
    /\ run = NoRun
    /\ noticed = [a \in Actors |-> FALSE]
    /\ patrol = [a \in Actors |-> NoPatrol]
    /\ grid = NoGrid
    /\ xy = <<0, 0>>
    /\ names = PlainNames
    /\ pc = "rage"
    /\ snapshot = {}
    /\ cur = NoActor
    /\ log = <<>>
    /\ performs = Zeros
    /\ pass_energy = Zeros
    /\ grant_speed = 100
    /\ last = Did("new_game", TRUE)

NextRage == RageQuaff \/ RageEnd

SpecRage == InitRage /\ [][NextRage]_vars

\* ---------------------------------------------------------------------------
\* The attack specification: melee and ranged attacks between actors that
\* may wear armour and may be asleep, without the scheduler (pc stays
\* "attack").
ArmourBonuses == 0 .. 2
AttackDirections == {<<-1, 0>>, <<1, 0>>}
SleepOf(asleep) == IF asleep THEN <<[name |-> "Sleep", max_turns |-> MaxDuration,
                                    turns_left |-> MaxDuration]>>
                   ELSE <<>>

AttackMelee ==
    /\ pc = "attack"
    /\ \E a \in ActorsOf(World), d \in AttackDirections, crit \in BOOLEAN,
          ord \in Orders(World) :
          LET target == MeleeTarget(World, a, d, ord)
              r == MeleeAction(World, a, d, crit, ord)
          IN /\ ~is_asleep[a]
             /\ SetWorld(r.w)
             /\ last' = [Did("melee", r.ok) EXCEPT !.who = target,
                             !.arg = MeleeDamage(World, a, target, crit)]
    /\ CombatFrame

AttackRanged ==
    /\ pc = "attack"
    /\ \E a \in ActorsOf(World), crit \in BOOLEAN, ord \in Orders(World) :
          LET r == RangedAttackAction(World, a, crit, ord)
          IN /\ RangedAttack(a)
             /\ ~is_asleep[a]
             /\ IsAlive(World, "player")
             /\ SetWorld(r.w)
             /\ last' = [Did("ranged", r.ok) EXCEPT !.who = "player",
                             !.arg = ComputeDamage(Power(World, a),
                                                   Defense(World, "player"), crit)]
    /\ CombatFrame

InitAttack ==
    /\ hp = [a \in Actors |-> MaxHpOf(a)]
    /\ ai = [a \in Actors |-> <<HostileAI>>]
    /\ render_order = [a \in Actors |-> "ACTOR"]
    /\ blocks_movement = [a \in Actors |-> TRUE]
    /\ entities = Actors
    /\ pos = [a \in Actors |-> CASE a = "player" -> 1 [] a = "m1" -> 2 [] OTHER -> 0]
    /\ is_asleep \in [Actors -> BOOLEAN]
    /\ effects = [a \in Actors |-> SleepOf(is_asleep[a])]
    /\ is_hasted = [a \in Actors |-> FALSE]
    /\ is_invisible = [a \in Actors |-> FALSE]
    /\ energy = Zeros
    /\ turn = 1
    /\ bonus_actions = 0
    /\ visible = Tiles
    /\ kill_counts = Zeros
    /\ xp_awards = Zeros
    /\ death_msgs = Zeros
    /\ death_explosion = [a \in Actors |-> a = "m1"]
    /\ tiles = OpenCorridor
    /\ secret_doors = {}
    /\ booms = Zeros
    /\ hits = Zeros
    /\ wake_msgs = Zeros
    /\ hurt_asleep = FALSE
    /\ roll = NoRoll
    /\ inventory = <<>>
    /\ floor = <<>>
    /\ thrown = NoThrow
    /\ base_power = Whole(BasePower("player"))
    /\ calm_power = base_power
    /\ defense_bonus \in [Actors -> ArmourBonuses]
    /\ run = NoRun
    /\ noticed = [a \in Actors |-> FALSE]
    /\ patrol = [a \in Actors |-> NoPatrol]
    /\ grid = NoGrid
    /\ xy = <<0, 0>>
    /\ names = PlainNames
    /\ pc = "attack"
    /\ snapshot = {}
    /\ cur = NoActor
    /\ log = <<>>
    /\ performs = Zeros
    /\ pass_energy = Zeros
    /\ grant_speed = 100
    /\ last = Did("new_game", TRUE)

NextAttack == AttackMelee \/ AttackRanged

SpecAttack == InitAttack /\ [][NextAttack]_vars

\* ---------------------------------------------------------------------------
\* The crit specification: monsters of every name attack the player, in melee
\* and with the ranged attack, and the player attacks them; roll holds the
\* arguments the last attack gave compute_damage, last.who the attacker (pc
\* stays "crit").
MonsterNames == {"Orc", "Dragon", "Ender Dragon", "Hydra"}
\* the draws tried: the least and the greatest one and those around both chances
CritDraws == {0, 5, 6, 30, 31, 99} \cap RandomDraws

\* The arguments and the results of a compute_damage call
Rolled(attack_power, defense, crit_chance, draw) ==
    LET r == ComputeDamageDrawn(attack_power, defense, crit_chance, draw)
    IN [attack_power |-> attack_power, defense |-> defense, crit_chance |-> crit_chance,
        draw |-> draw, damage |-> r.damage, is_crit |-> r.is_crit, done |-> TRUE]

CritMelee ==
    /\ pc = "crit"
    /\ IsAlive(World, "player")
    /\ \E a \in ActorsOf(World), d \in AttackDirections, draw \in CritDraws,
          ord \in Orders(World) :
          LET target == MeleeTarget(World, a, d, ord)
              chance == MeleeCritChance(names[a])
              r == MeleeAction(World, a, d, CritFires(draw, chance), ord)
          IN /\ r.ok
             /\ SetWorld([r.w EXCEPT !.roll = Rolled(Power(World, a), Defense(World, target),
                                                     chance, draw)])
             /\ last' = [Did("melee", TRUE) EXCEPT !.who = a]
    /\ CombatFrame

CritRanged ==
    /\ pc = "crit"
    /\ IsAlive(World, "player")
    /\ \E a \in ActorsOf(World), draw \in CritDraws, ord \in Orders(World) :
          LET chance == RangedCritChance(names[a])
              r == RangedAttackAction(World, a, CritFires(draw, chance), ord)
          IN /\ RangedAttack(a)
             /\ SetWorld([r.w EXCEPT !.roll = Rolled(Power(World, a),
                                                     Defense(World, "player"), chance, draw)])
             /\ last' = [Did("ranged", TRUE) EXCEPT !.who = a]
    /\ CombatFrame

InitCrit ==
    /\ hp = [a \in Actors |-> MaxHpOf(a)]
    /\ ai = [a \in Actors |-> <<HostileAI>>]
    /\ render_order = [a \in Actors |-> "ACTOR"]
    /\ blocks_movement = [a \in Actors |-> TRUE]
    /\ entities = Actors
    /\ pos = [a \in Actors |-> CASE a = "player" -> 1 [] a = "m1" -> 2 [] OTHER -> 0]
    /\ is_asleep = [a \in Actors |-> FALSE]
    /\ effects = [a \in Actors |-> <<>>]
    /\ is_hasted = [a \in Actors |-> FALSE]
    /\ is_invisible = [a \in Actors |-> FALSE]
    /\ energy = Zeros
    /\ turn = 1
    /\ bonus_actions = 0
    /\ visible = Tiles
    /\ kill_counts = Zeros
    /\ xp_awards = Zeros
    /\ death_msgs = Zeros
    /\ death_explosion = [a \in Actors |-> FALSE]
    /\ tiles = OpenCorridor
    /\ secret_doors = {}
    /\ booms = Zeros
    /\ hits = Zeros
    /\ wake_msgs = Zeros
    /\ hurt_asleep = FALSE
    /\ roll = NoRoll
    /\ inventory = <<>>
    /\ floor = <<>>
    /\ thrown = NoThrow
    /\ base_power = Whole(BasePower("player"))
    /\ calm_power = base_power
    /\ defense_bonus = [a \in Actors |-> 0]
    /\ run = NoRun
    /\ noticed = [a \in Actors |-> FALSE]
    /\ patrol = [a \in Actors |-> NoPatrol]
    /\ grid = NoGrid
    /\ xy = <<0, 0>>
    /\ names \in {f \in [Actors -> MonsterNames \cup {"Player"}] :
                     \A a \in Actors : f[a] = "Player" <=> a = "player"}
    /\ pc = "crit"
    /\ snapshot = {}
    /\ cur = NoActor
    /\ log = <<>>
    /\ performs = Zeros
    /\ pass_energy = Zeros
    /\ grant_speed = 100
    /\ last = Did("new_game", TRUE)

NextCrit == CritMelee \/ CritRanged

SpecCrit == InitCrit /\ [][NextCrit]_vars

\* ---------------------------------------------------------------------------
\* The damage specification: compute_damage as a function of its arguments
\* and of the value random.random() gives it (pc stays "damage").
AttackPowers == {0, 2, 10}
Defenses == {0, 1, 3}
CritChances == {0, DefaultCritChance, 100}
\* the draws tried: the least and the greatest float of random.random() and
\* the values around the default crit chance
DrawsTried == {0, 4, 5, 6, 99} \cap RandomDraws

DamageCompute ==
    /\ pc = "damage"
    /\ ~roll.done
    /\ LET r == ComputeDamageDrawn(roll.attack_power, roll.defense,
                                   roll.crit_chance, roll.draw)
       IN SetWorld([World EXCEPT !.roll = [roll EXCEPT !.damage = r.damage,
                                                       !.is_crit = r.is_crit,
                                                       !.done = TRUE]])
    /\ last' = Did("compute_damage", TRUE)
    /\ CombatFrame

InitDamage ==
    /\ hp = [a \in Actors |-> MaxHpOf(a)]
    /\ ai = [a \in Actors |-> <<HostileAI>>]
    /\ render_order = [a \in Actors |-> "ACTOR"]
    /\ blocks_movement = [a \in Actors |-> TRUE]
    /\ entities = Actors
    /\ pos = [a \in Actors |-> CASE a = "player" -> 0 [] a = "m1" -> 1 [] OTHER -> 2]
    /\ effects = [a \in Actors |-> <<>>]
    /\ is_asleep = [a \in Actors |-> FALSE]
    /\ is_hasted = [a \in Actors |-> FALSE]
    /\ is_invisible = [a \in Actors |-> FALSE]
    /\ energy = Zeros
    /\ turn = 1
    /\ bonus_actions = 0
    /\ visible = Tiles
    /\ kill_counts = Zeros
    /\ xp_awards = Zeros
    /\ death_msgs = Zeros
    /\ death_explosion = [a \in Actors |-> a = "m1"]
    /\ tiles = OpenCorridor
    /\ secret_doors = {}
    /\ booms = Zeros
    /\ hits = Zeros
    /\ wake_msgs = Zeros
    /\ hurt_asleep = FALSE
    /\ \E ap \in AttackPowers, df \in Defenses, cc \in CritChances, dr \in DrawsTried :
          roll = [NoRoll EXCEPT !.attack_power = ap, !.defense = df,
                                !.crit_chance = cc, !.draw = dr]
    /\ inventory = <<>>
    /\ floor = <<>>
    /\ thrown = NoThrow
    /\ base_power = Whole(BasePower("player"))
    /\ calm_power = base_power
    /\ defense_bonus = [a \in Actors |-> 0]
    /\ run = NoRun
    /\ noticed = [a \in Actors |-> FALSE]
    /\ patrol = [a \in Actors |-> NoPatrol]
    /\ grid = NoGrid
    /\ xy = <<0, 0>>
    /\ names = PlainNames
    /\ pc = "damage"
    /\ snapshot = {}
    /\ cur = NoActor
    /\ log = <<>>
    /\ performs = Zeros
    /\ pass_energy = Zeros
    /\ grant_speed = 100
    /\ last = Did("new_game", TRUE)

NextDamage == DamageCompute

SpecDamage == InitDamage /\ [][NextDamage]_vars

\* ---------------------------------------------------------------------------
\* The run specification: the player repeats a movement action the way
\* handle_action does (perform, end_turn, again while perform returned True) on
\* a corridor with walls and doors; during end_turn the one monster of the map
\* moves or opens a door (pc is "run_idle", "run_perform" or "run_turn").
Cardinal == {<<1, 0>>, <<-1, 0>>, <<0, 1>>, <<0, -1>>}
NoTurn == <<0, 0>>

\* tile_types: the tiles that do not block the field of view
Transparent(kind) == kind \in {"floor", "door_open"}
\* tile_types.interesting_tiles (the kinds the corridor has)
InterestingTiles == {"door_closed", "door_open"}

\* _walkable(x, y), y counted from the row of the corridor
RunWalkable(w, x, y) == y = 0 /\ x \in Tiles /\ Walkable(w.tiles[x])

\* _count_neighbors
CountNeighbors(w, x, y) ==
    Cardinality({c \in Cardinal : RunWalkable(w, x + c[1], y + c[2])})

\* GameMap.any_monsters_visible
AnyMonstersVisible(w) == \E a \in ActorsOf(w) \ {"player"} : w.pos[a] \in w.visible

\* _find_corridor_turn of both repeated movements
FindCorridorTurn(w, a, d) ==
    LET px == w.pos[a]
        backward == <<-d[1], -d[2]>>
        candidates == {c \in Cardinal : c # backward /\ RunWalkable(w, px + c[1], c[2])}
    IN IF \E c \in Cardinal : /\ RunWalkable(w, px + c[1], c[2])
                              /\ CountNeighbors(w, px + c[1], c[2]) >= 3
       THEN NoTurn
       ELSE IF Cardinality(candidates) = 1 THEN CHOOSE c \in candidates : TRUE
       ELSE NoTurn

\* The result of one perform() of a repeated action: the world, the repeat
\* signal (True, against None or False) and the action object afterwards
Ran(w, sig, r) == [w |-> w, sig |-> sig, run |-> r]

\* A MovementRepeatedAction that does not look for monsters
MovementRepeatedActionBlind(w, a, r) ==
    LET step == MovementAction(w, a, r.d)
    IN IF step.ok THEN Ran(step.w, TRUE, r) ELSE Ran(w, FALSE, r)

\* MovementRepeatedAction.perform
MovementRepeatedAction(w, a, r) ==
    IF AnyMonstersVisible(w) THEN Ran(w, FALSE, r)
    ELSE LET step == MovementAction(w, a, r.d)
         IN IF step.ok THEN Ran(step.w, TRUE, r)
            ELSE IF CountNeighbors(w, w.pos[a], 0) >= 3 THEN Ran(w, FALSE, r)
            ELSE LET bend == FindCorridorTurn(w, a, r.d)
                 IN IF bend = NoTurn THEN Ran(w, FALSE, r)
                    ELSE LET again == MovementAction(w, a, bend)
                         IN Ran(again.w, again.ok, [r EXCEPT !.d = bend])

\* CarefulMovementAction._on_interesting_tile
OnInterestingTile(w, a) ==
    \/ w.tiles[w.pos[a]] \in InterestingTiles
    \/ \E i \in DOMAIN w.floor : w.floor[i].x = w.pos[a]

\* CarefulMovementAction._try_step_open
TryStepOpen(w, a, r) ==
    LET step == MovementAction(w, a, r.d)
    IN IF step.ok THEN Ran(step.w, ~OnInterestingTile(step.w, a), r)
       ELSE Ran(w, FALSE, r)

\* CarefulMovementAction._try_step
TryStep(w, a, r) ==
    LET step == MovementAction(w, a, r.d)
    IN IF step.ok
       THEN Ran(step.w, ~OnInterestingTile(step.w, a), [r EXCEPT !.has_moved = TRUE])
       ELSE Ran(w, FALSE, r)

\* CarefulMovementAction._enter_room_or_stop
EnterRoomOrStop(w, a, r) ==
    IF ~r.has_moved THEN TryStep(w, a, r) ELSE Ran(w, FALSE, r)

\* CarefulMovementAction.perform
CarefulMovementAction(w, a, r) ==
    LET px == w.pos[a]
        dest == px + r.d[1]
    IN IF AnyMonstersVisible(w) THEN Ran(w, FALSE, r)
       ELSE IF CountNeighbors(w, px, 0) >= 3 THEN TryStepOpen(w, a, r)
       ELSE IF CountNeighbors(w, dest, r.d[2]) >= 3 THEN EnterRoomOrStop(w, a, r)
       ELSE IF ~RunWalkable(w, dest, r.d[2])
       THEN LET bend == FindCorridorTurn(w, a, r.d)
                turned == [r EXCEPT !.d = bend]
            IN IF bend = NoTurn THEN Ran(w, FALSE, r)
               ELSE IF CountNeighbors(w, px + bend[1], bend[2]) >= 3
               THEN EnterRoomOrStop(w, a, turned)
               ELSE TryStep(w, a, turned)
       ELSE TryStep(w, a, r)

\* TargetMovementAction.perform
TargetMovementAction(w, a, r) ==
    IF r.path = <<>> THEN Ran(w, FALSE, r)
    ELSE IF AnyMonstersVisible(w) THEN Ran(w, FALSE, r)
    ELSE LET x == Head(r.path)
             rest == [r EXCEPT !.path = Tail(r.path)]
         IN IF BlockedAt(w, x) THEN Ran(w, FALSE, rest)
            ELSE Ran([w EXCEPT !.pos[a] = x], TRUE, rest)

\* Engine.update_fov with the walls and doors of the corridor: a tile is seen
\* when every tile between it and the player is transparent
UpdateFovOnMap(w) ==
    LET px == w.pos["player"]
        between(x) == {z \in Tiles : (px < z /\ z < x) \/ (x < z /\ z < px)}
    IN [w EXCEPT !.visible =
           IF w.is_asleep["player"] THEN {}
           ELSE {x \in Tiles : \A z \in between(x) : Transparent(w.tiles[z])}]

\* The directions of the movement keys that are tried
RunDirections == {<<-1, 0>>, <<1, 0>>, <<0, 1>>, <<1, 1>>}

\* ev_keydown and on_index_selected: the handler builds the action
RunStart ==
    /\ pc = "run_idle"
    /\ \/ \E kind \in {"repeat", "careful"}, d \in RunDirections :
             SetWorld([World EXCEPT !.run = [NoRun EXCEPT !.kind = kind, !.d = d]])
       \/ \E x \in Tiles :
             SetWorld([World EXCEPT !.run =
                 [NoRun EXCEPT !.kind = "target", !.path = GetPathTo(World, "player", x)]])
    /\ pc' = "run_perform"
    /\ last' = Did("key", TRUE)
    /\ log' = <<>>
    /\ UNCHANGED <<turn, bonus_actions, snapshot, cur, performs, pass_energy,
                 grant_speed>>

\* ev_keydown: a movement key without modifier builds a BumpAction
RunStartBump ==
    /\ pc = "run_idle"
    /\ \E d \in RunDirections :
          SetWorld([World EXCEPT !.run = [NoRun EXCEPT !.kind = "bump", !.d = d]])
    /\ pc' = "run_perform"
    /\ last' = Did("key", TRUE)
    /\ log' = <<>>
    /\ UNCHANGED <<turn, bonus_actions, snapshot, cur, performs, pass_energy,
                 grant_speed>>

\* A handle_action that leaves the loop before end_turn when perform() asks
\* for no repeat
RunPerformBreaksEarly ==
    /\ pc = "run_perform"
    /\ \E crit \in BOOLEAN, ord \in Orders(World) :
          LET bump == BumpAction(World, "player", run.d, crit, ord)
              r == CASE run.kind = "repeat" -> MovementRepeatedAction(World, "player", run)
                     [] run.kind = "careful" -> CarefulMovementAction(World, "player", run)
                     [] run.kind = "target" -> TargetMovementAction(World, "player", run)
                     [] OTHER -> Ran(bump.w, FALSE, run)
              raised == run.kind = "bump" /\ ~bump.ok
          IN /\ SetWorld([r.w EXCEPT !.run = IF raised \/ ~r.sig THEN NoRun ELSE r.run])
             /\ last' = [Did(run.kind, ~raised) EXCEPT !.who = "player",
                                                      !.ret = IF r.sig THEN 1 ELSE 0]
             /\ pc' = IF raised \/ ~r.sig THEN "run_idle" ELSE "run_turn"
             /\ log' = Append(log, IF raised THEN "impossible" ELSE "perform")
    /\ UNCHANGED <<turn, bonus_actions, snapshot, cur, performs, pass_energy,
                 grant_speed>>

\* handle_action: should_repeat = action.perform(); an Impossible is logged
\* and ends the call. log keeps what the running handle_action call has done.
RunPerform ==
    /\ pc = "run_perform"
    /\ \E crit \in BOOLEAN, ord \in Orders(World) :
          LET bump == BumpAction(World, "player", run.d, crit, ord)
              r == CASE run.kind = "repeat" -> MovementRepeatedAction(World, "player", run)
                     [] run.kind = "careful" -> CarefulMovementAction(World, "player", run)
                     [] run.kind = "target" -> TargetMovementAction(World, "player", run)
                     [] OTHER -> Ran(bump.w, FALSE, run)
              raised == run.kind = "bump" /\ ~bump.ok
          IN /\ SetWorld([r.w EXCEPT !.run = IF raised THEN NoRun ELSE r.run])
             /\ last' = [Did(run.kind, ~raised) EXCEPT !.who = "player",
                                                      !.ret = IF r.sig THEN 1 ELSE 0]
             /\ pc' = IF raised THEN "run_idle" ELSE "run_turn"
             /\ log' = Append(log, IF raised THEN "impossible" ELSE "perform")
    /\ UNCHANGED <<turn, bonus_actions, snapshot, cur, performs, pass_energy,
                 grant_speed>>

\* What the monster does in its turn: nothing, a step, or the opening of the
\* door next to it (the Wizard's _try_wizard_door)
MonsterTurns(w) ==
    {w} \cup {MovementAction(w, "m1", d).w : d \in {<<-1, 0>>, <<1, 0>>}}
        \cup {OpenDoorAction(w, "m1", x, 0).w : x \in {w.pos["m1"] - 1, w.pos["m1"] + 1}}

\* handle_action: self.engine.end_turn(), then the loop goes on or breaks
RunEndTurn ==
    /\ pc = "run_turn"
    /\ \E w \in MonsterTurns(World) :
          SetWorld([UpdateFovOnMap(w) EXCEPT !.run = IF last.ret = 1 THEN run ELSE NoRun])
    /\ pc' = IF last.ret = 1 THEN "run_perform" ELSE "run_idle"
    /\ last' = last
    /\ log' = Append(log, "end_turn")
    /\ UNCHANGED <<turn, bonus_actions, snapshot, cur, performs, pass_energy,
                 grant_speed>>

RunPlacements ==
    {p \in [Actors -> Tiles] : p["player"] \in {0, 1} /\ p["m1"] # p["player"] /\ p["m2"] = 0}

InitRun ==
    /\ hp = [a \in Actors |-> MaxHpOf(a)]
    /\ ai = [a \in Actors |-> IF a = "m2" THEN <<>> ELSE <<HostileAI>>]
    /\ render_order = [a \in Actors |-> "ACTOR"]
    /\ blocks_movement = [a \in Actors |-> TRUE]
    /\ entities = {"player", "m1"}
    /\ pos \in RunPlacements
    /\ effects = [a \in Actors |-> <<>>]
    /\ is_asleep = [a \in Actors |-> FALSE]
    /\ is_hasted = [a \in Actors |-> FALSE]
    /\ is_invisible = [a \in Actors |-> FALSE]
    /\ energy = Zeros
    /\ turn = 1
    /\ bonus_actions = 0
    /\ tiles \in {t \in Maps : \A a \in entities : Walkable(t[pos[a]])}
    /\ visible = UpdateFovOnMap([pos |-> pos, tiles |-> tiles, is_asleep |-> is_asleep,
                                 visible |-> {}]).visible
    /\ kill_counts = Zeros
    /\ xp_awards = Zeros
    /\ death_msgs = Zeros
    /\ death_explosion = [a \in Actors |-> FALSE]
    /\ secret_doors = {}
    /\ booms = Zeros
    /\ hits = Zeros
    /\ wake_msgs = Zeros
    /\ hurt_asleep = FALSE
    /\ roll = NoRoll
    /\ inventory = <<>>
    /\ floor \in Floors
    /\ thrown = NoThrow
    /\ base_power = Whole(BasePower("player"))
    /\ calm_power = base_power
    /\ defense_bonus = [a \in Actors |-> 0]
    /\ run = NoRun
    /\ noticed = [a \in Actors |-> FALSE]
    /\ patrol = [a \in Actors |-> NoPatrol]
    /\ grid = NoGrid
    /\ xy = <<0, 0>>
    /\ names = PlainNames
    /\ pc = "run_idle"
    /\ snapshot = {}
    /\ cur = NoActor
    /\ log = <<>>
    /\ performs = Zeros
    /\ pass_energy = Zeros
    /\ grant_speed = 100
    /\ last = Did("new_game", TRUE)

NextRun ==
    \/ RunStart
    \/ RunPerform
    \/ RunEndTurn

SpecRun == InitRun /\ [][NextRun]_vars

\* The loop specification: the run specification with the plain BumpAction,
\* whose perform() may raise Impossible
NextLoop ==
    \/ RunStart
    \/ RunStartBump
    \/ RunPerform
    \/ RunEndTurn

SpecLoop == InitRun /\ [][NextLoop]_vars

\* ---------------------------------------------------------------------------
\* The grid specification: the player, alone on a small two-dimensional map
\* (a ring corridor, rooms, corridors with bends and junctions), starts a
\* repeated movement and handle_action runs it: perform, end_turn, and again
\* while perform returned True (pc is "grid_idle", "grid_perform" or
\* "grid_turn").
GridCells == (0 .. 2) \X (0 .. 2)

\* _walkable(x, y): gm.in_bounds(x, y) and gm.tiles["walkable"][x, y]
Walkable2D(w, x, y) == <<x, y>> \in GridCells /\ <<x, y>> \in w.grid.walkable

\* _count_neighbors, and the neighbors sum of MovementRepeatedAction.perform
CountNeighbors2D(w, x, y) ==
    Cardinality({c \in Cardinal : Walkable2D(w, x + c[1], y + c[2])})

\* _find_corridor_turn of both repeated movements
FindCorridorTurn2D(w, d) ==
    LET px == w.xy[1]
        py == w.xy[2]
        backward == <<-d[1], -d[2]>>
        candidates == {c \in Cardinal :
                         c # backward /\ Walkable2D(w, px + c[1], py + c[2])}
    IN IF \E c \in Cardinal : /\ Walkable2D(w, px + c[1], py + c[2])
                              /\ CountNeighbors2D(w, px + c[1], py + c[2]) >= 3
       THEN NoTurn
       ELSE IF Cardinality(candidates) = 1 THEN CHOOSE c \in candidates : TRUE
       ELSE NoTurn

\* MovementAction.perform of the player; no other entity is on the map, so
\* get_blocking_entity_at_location finds none
MovementAction2D(w, d) ==
    LET dest_x == w.xy[1] + d[1]
        dest_y == w.xy[2] + d[2]
    IN IF <<dest_x, dest_y>> \notin GridCells \/ <<dest_x, dest_y>> \notin w.grid.walkable
       THEN [w |-> w, ok |-> FALSE]
       ELSE [w |-> [w EXCEPT !.xy = <<dest_x, dest_y>>], ok |-> TRUE]

\* MovementRepeatedAction.perform
MovementRepeatedAction2D(w, r) ==
    IF AnyMonstersVisible(w) THEN Ran(w, FALSE, r)
    ELSE LET step == MovementAction2D(w, r.d)
         IN IF step.ok THEN Ran(step.w, TRUE, r)
            ELSE IF CountNeighbors2D(w, w.xy[1], w.xy[2]) >= 3 THEN Ran(w, FALSE, r)
            ELSE LET bend == FindCorridorTurn2D(w, r.d)
                 IN IF bend = NoTurn THEN Ran(w, FALSE, r)
                    ELSE LET again == MovementAction2D(w, bend)
                         IN Ran(again.w, again.ok, [r EXCEPT !.d = bend])

\* CarefulMovementAction.perform, with _try_step_open, _try_step,
\* _enter_room_or_stop and _on_interesting_tile (no item lies on the map)
CarefulMovementAction2D(w, r) ==
    LET px == w.xy[1]
        py == w.xy[2]
        on_interesting_tile(w0) == w0.xy \in w0.grid.interesting
        try_step_open(r0) ==
            LET step == MovementAction2D(w, r0.d)
            IN IF step.ok THEN Ran(step.w, ~on_interesting_tile(step.w), r0)
               ELSE Ran(w, FALSE, r0)
        try_step(r0) ==
            LET step == MovementAction2D(w, r0.d)
            IN IF step.ok
               THEN Ran(step.w, ~on_interesting_tile(step.w), [r0 EXCEPT !.has_moved = TRUE])
               ELSE Ran(w, FALSE, r0)
        enter_room_or_stop(r0) ==
            IF ~r0.has_moved THEN try_step(r0) ELSE Ran(w, FALSE, r0)
    IN IF AnyMonstersVisible(w) THEN Ran(w, FALSE, r)
       ELSE IF CountNeighbors2D(w, px, py) >= 3 THEN try_step_open(r)
       ELSE IF CountNeighbors2D(w, px + r.d[1], py + r.d[2]) >= 3 THEN enter_room_or_stop(r)
       ELSE IF ~Walkable2D(w, px + r.d[1], py + r.d[2])
       THEN LET bend == FindCorridorTurn2D(w, r.d)
                turned == [r EXCEPT !.d = bend]
            IN IF bend = NoTurn THEN Ran(w, FALSE, r)
               ELSE IF CountNeighbors2D(w, px + bend[1], py + bend[2]) >= 3
               THEN enter_room_or_stop(turned)
               ELSE try_step(turned)
       ELSE try_step(r)

\* The maps: the ring around a pillar, the 2x2 room, the 3x3 room, a straight
\* corridor, a corridor with a bend, and a corridor with a junction
GridMaps ==
    {GridCells \ {<<1, 1>>},
     {<<0, 0>>, <<1, 0>>, <<0, 1>>, <<1, 1>>},
     GridCells,
     {<<0, 0>>, <<1, 0>>, <<2, 0>>},
     {<<0, 0>>, <<1, 0>>, <<2, 0>>, <<2, 1>>, <<2, 2>>},
     {<<0, 0>>, <<1, 0>>, <<2, 0>>, <<1, 1>>, <<1, 2>>}}

GridFrame ==
    UNCHANGED <<turn, bonus_actions, snapshot, cur, log, performs, pass_energy,
                grant_speed>>

\* ev_keydown: a movement key with ctrl or shift builds the repeated action
GridStart ==
    /\ pc = "grid_idle"
    /\ \E kind \in {"repeat", "careful"}, d \in Cardinal :
          SetWorld([World EXCEPT !.run = [NoRun EXCEPT !.kind = kind, !.d = d]])
    /\ pc' = "grid_perform"
    /\ last' = Did("key", TRUE)
    /\ GridFrame

\* handle_action: should_repeat = action.perform()
GridPerform ==
    /\ pc = "grid_perform"
    /\ LET r == IF run.kind = "repeat" THEN MovementRepeatedAction2D(World, run)
                ELSE CarefulMovementAction2D(World, run)
       IN /\ SetWorld([r.w EXCEPT !.run = r.run])
          /\ last' = [Did(run.kind, TRUE) EXCEPT !.ret = IF r.sig THEN 1 ELSE 0]
    /\ pc' = "grid_turn"
    /\ GridFrame

\* handle_action: self.engine.end_turn() (no monster is on the map), then the
\* loop goes on or breaks
GridEndTurn ==
    /\ pc = "grid_turn"
    /\ SetWorld([World EXCEPT !.run = IF last.ret = 1 THEN run ELSE NoRun])
    /\ pc' = IF last.ret = 1 THEN "grid_perform" ELSE "grid_idle"
    /\ last' = last
    /\ GridFrame

InitGrid ==
    /\ hp = [a \in Actors |-> MaxHpOf(a)]
    /\ ai = [a \in Actors |-> <<>>]
    /\ render_order = [a \in Actors |-> "ACTOR"]
    /\ blocks_movement = [a \in Actors |-> TRUE]
    /\ entities = {"player"}
    /\ pos = [a \in Actors |-> 0]
    /\ is_asleep = [a \in Actors |-> FALSE]
    /\ effects = [a \in Actors |-> <<>>]
    /\ is_hasted = [a \in Actors |-> FALSE]
    /\ is_invisible = [a \in Actors |-> FALSE]
    /\ energy = Zeros
    /\ turn = 1
    /\ bonus_actions = 0
    /\ visible = Tiles
    /\ kill_counts = Zeros
    /\ xp_awards = Zeros
    /\ death_msgs = Zeros
    /\ death_explosion = [a \in Actors |-> FALSE]
    /\ tiles = OpenCorridor
    /\ secret_doors = {}
    /\ booms = Zeros
    /\ hits = Zeros
    /\ wake_msgs = Zeros
    /\ hurt_asleep = FALSE
    /\ roll = NoRoll
    /\ inventory = <<>>
    /\ floor = <<>>
    /\ thrown = NoThrow
    /\ base_power = Whole(BasePower("player"))
    /\ calm_power = base_power
    /\ defense_bonus = [a \in Actors |-> 0]
    /\ run = NoRun
    /\ noticed = [a \in Actors |-> FALSE]
    /\ patrol = [a \in Actors |-> NoPatrol]
    /\ names = PlainNames
    /\ \E cells \in GridMaps :
          /\ xy \in cells
          /\ \E marked \in {{}} \cup {{c} : c \in cells} :
                grid = [walkable |-> cells, interesting |-> marked]
    /\ pc = "grid_idle"
    /\ snapshot = {}
    /\ cur = NoActor
    /\ log = <<>>
    /\ performs = Zeros
    /\ pass_energy = Zeros
    /\ grant_speed = 100
    /\ last = Did("new_game", TRUE)

NextGrid == GridStart \/ GridPerform \/ GridEndTurn

\* The loop of handle_action does not wait for input: the perform() and the
\* end_turn() that are due are run, as the position of the program shows them
GridPerformDue == pc = "grid_perform" /\ pc' = "grid_turn"
GridEndTurnDue == pc = "grid_turn" /\ pc' \in {"grid_perform", "grid_idle"}

SpecGrid ==
    InitGrid /\ [][NextGrid]_vars /\ WF_pc(GridPerformDue) /\ WF_pc(GridEndTurnDue)

\* ---------------------------------------------------------------------------
\* The AI specification: the monsters' perform() calls in any order, on a
\* corridor with a wall or a door, while the player bumps its way along, shuts
\* doors, turns invisible and visible again and puts the monster to sleep (pc
\* stays "ai"). One monster (cur) is a HostileEnemy or a PatrollingEnemy,
\* confused or not; the other one sleeps until it is hit. The steps go on
\* while the player and that monster live.
\* The corridor has one door, which stands open at first
AIMaps == {[OpenCorridor EXCEPT ![2] = "door_open"]}

\* The directions random.choice gives that are tried: along the corridor and
\* out of it
AIDirections == {<<-1, 0>>, <<1, 0>>, <<0, 1>>}

AIPlacements(t) ==
    {p \in [Actors -> Tiles] :
        /\ \A a \in Actors : Walkable(t[p[a]])
        /\ \A a, b \in Actors : a # b => p[a] # p[b]}

\* The outcomes of the random draws that a perform() of actor a can depend
\* on: the critical hit of an attack on the adjacent player, and the tile
\* _pick_patrol_target draws when there is no patrol target
AICrits(a) ==
    IF ai[a] # <<>> /\ (Abs(pos["player"] - pos[a]) <= AttackRange(a)
                         \/ Head(ai[a]).kind = "confused")
    THEN BOOLEAN ELSE {FALSE}

AIPicks(a) ==
    IF ai[a] # <<>> /\ Head(ai[a]).kind = "patrolling" /\ patrol[a].target = NoTile
    THEN {x \in Tiles : Walkable(tiles[x])} ELSE {pos[a]}

AIFrame ==
    UNCHANGED <<turn, bonus_actions, pc, snapshot, cur, log, performs, pass_energy,
                grant_speed>>

\* entity.ai.perform() of the monster, Impossible ignored as handle_enemy_turns
\* does; last.arg is the hp the player has lost in the call
AIPerform ==
    /\ pc = "ai"
    /\ IsAlive(World, "player") /\ IsAlive(World, cur)
    /\ \E a \in {cur} \cap ActorsOf(World), d \in AIDirections,
          crit \in AICrits(cur), ord \in Orders(World), pick \in AIPicks(cur) :
          LET r == IF Head(ai[a]).kind = "patrolling"
                   THEN PatrollingPerform(World, a, d, crit, ord, pick)
                   ELSE Perform(World, a, d, crit, ord)
          IN /\ SetWorld(r.w)
             /\ last' = [Did("perform", r.ok) EXCEPT
                            !.arg = hp["player"] - r.w.hp["player"]]
    /\ AIFrame

\* the player bumps to the left or to the right; update_fov follows
AIPlayerBump ==
    /\ pc = "ai"
    /\ IsAlive(World, "player") /\ IsAlive(World, cur)
    /\ \E d \in {<<-1, 0>>, <<1, 0>>}, crit \in BOOLEAN, ord \in Orders(World) :
          LET r == BumpAction(World, "player", d, crit, ord)
          IN /\ SetWorld(UpdateFovOnMap(r.w))
             /\ last' = Did("player", TRUE)
    /\ AIFrame

\* the player shuts one of the doors find_closeable_doors offers: the open
\* doors of the 3x3 area around it, its own tile included
AIPlayerClose ==
    /\ pc = "ai"
    /\ IsAlive(World, "player") /\ IsAlive(World, cur)
    /\ \E x \in {pos["player"] - 1, pos["player"], pos["player"] + 1} :
          LET r == CloseDoorAction(World, "player", x, 0)
          IN /\ SetWorld(UpdateFovOnMap(r.w))
             /\ last' = Did("player", TRUE)
    /\ AIFrame

\* an Invisible effect starts on the player, a Sleep effect on a monster
AIEffectStarts ==
    /\ pc = "ai"
    /\ IsAlive(World, "player") /\ IsAlive(World, cur)
    /\ \E a \in {"player", cur} \cap ActorsOf(World) :
          /\ effects[a] = <<>>
          /\ SetWorld(Activate(World, a, IF a = "player" THEN "Invisible" ELSE "Sleep",
                               MaxDuration))
          /\ last' = Did("player", TRUE)
    /\ AIFrame

\* the effect of an actor expires
AIEffectEnds ==
    /\ pc = "ai"
    /\ IsAlive(World, "player") /\ IsAlive(World, cur)
    /\ \E a \in {"player", cur} \cap ActorsOf(World) :
          /\ effects[a] # <<>>
          /\ SetWorld(Expire(World, a, 1))
          /\ last' = Did("player", TRUE)
    /\ AIFrame

InitAI ==
    /\ hp = [a \in Actors |-> MaxHpOf(a)]
    /\ cur \in Monsters
    /\ ai \in {[a \in Actors |-> IF a = cur THEN stack ELSE <<HostileAI>>] :
                  stack \in {<<HostileAI>>, <<PatrollingAI>>, <<ConfusedAI(1), HostileAI>>}}
    /\ render_order = [a \in Actors |-> "ACTOR"]
    /\ blocks_movement = [a \in Actors |-> TRUE]
    /\ entities = Actors
    /\ ai[cur] = <<PatrollingAI>> => cur = "m1"
    /\ tiles \in AIMaps
    /\ pos \in AIPlacements(tiles)
    /\ is_asleep = [a \in Actors |-> a \in Monsters \ {cur}]
    /\ effects = [a \in Actors |->
                    IF is_asleep[a]
                    THEN <<[name |-> "Sleep", max_turns |-> MaxDuration,
                            turns_left |-> MaxDuration]>>
                    ELSE <<>>]
    /\ is_hasted = [a \in Actors |-> FALSE]
    /\ is_invisible = [a \in Actors |-> FALSE]
    /\ energy = Zeros
    /\ turn = 1
    /\ bonus_actions = 0
    /\ visible = UpdateFovOnMap([pos |-> pos, tiles |-> tiles, is_asleep |-> is_asleep,
                                 visible |-> {}]).visible
    /\ kill_counts = Zeros
    /\ xp_awards = Zeros
    /\ death_msgs = Zeros
    /\ death_explosion = [a \in Actors |-> FALSE]
    /\ secret_doors = {}
    /\ booms = Zeros
    /\ hits = Zeros
    /\ wake_msgs = Zeros
    /\ hurt_asleep = FALSE
    /\ roll = NoRoll
    /\ inventory = <<>>
    /\ floor = <<>>
    /\ thrown = NoThrow
    /\ base_power = Whole(BasePower("player"))
    /\ calm_power = base_power
    /\ defense_bonus = [a \in Actors |-> 0]
    /\ run = NoRun
    /\ noticed = [a \in Actors |-> FALSE]
    /\ patrol = [a \in Actors |-> NoPatrol]
    /\ grid = NoGrid
    /\ xy = <<0, 0>>
    /\ names = PlainNames
    /\ pc = "ai"
    /\ snapshot = {}
    /\ log = <<>>
    /\ performs = Zeros
    /\ pass_energy = Zeros
    /\ grant_speed = 100
    /\ last = Did("new_game", TRUE)

NextAI ==
    \/ AIPerform
    \/ AIPlayerBump
    \/ AIPlayerClose
    \/ AIEffectStarts
    \/ AIEffectEnds

SpecAI == InitAI /\ [][NextAI]_vars

\* ---------------------------------------------------------------------------
\* Properties

\* C1: the death logic of die() (kill recorded, experience awarded, death
\* message logged, reclassification as corpse) runs exactly once per actor, on
\* the first transition of its hp to 0; a later die() on the same actor, as
\* when a primed corpse is hit again or caught in a chain of explosions, awards
\* nothing and logs nothing more.
C1_DeathLogicOnce ==
    [][\A a \in Actors :
          /\ death_msgs'[a] <= 1 /\ xp_awards'[a] <= 1 /\ kill_counts'[a] <= 1
          /\ hp'[a] = 0 => /\ death_msgs'[a] = 1
                           /\ xp_awards'[a] = 1
                           /\ kill_counts'[a] = (IF a = "player" THEN 0 ELSE 1)
                           /\ render_order'[a] = "CORPSE"
          /\ hp'[a] > 0 /\ render_order'[a] # "CORPSE" =>
                death_msgs'[a] = 0 /\ xp_awards'[a] = 0 /\ kill_counts'[a] = 0
          /\ death_msgs'[a] # death_msgs[a] => hp[a] > 0 /\ hp'[a] = 0]_vars

\* a primed corpse was hit again and went off, and the other monster, itself
\* primed, has gone off too: each died once
C1_Witness ==
    /\ last.op = "take_damage" /\ last.who = "m1"
    /\ death_explosion["m1"] /\ death_explosion["m2"]
    /\ "m1" \notin entities /\ "m2" \notin entities
    /\ death_msgs["m1"] = 1 /\ death_msgs["m2"] = 1

\* C2: 0 <= hp <= max_hp for every fighter after every operation, and heal
\* returns the amount by which hp rose.
C2_HpClamped ==
    [][/\ \A a \in Actors : hp'[a] >= 0 /\ hp'[a] <= MaxHpOf(a)
       /\ last'.op = "heal" => last'.ret = hp'[last'.who] - hp[last'.who]]_vars

\* a heal of 3 that the clamp cut to 1
C2_Witness ==
    /\ last.op = "heal" /\ last.arg = 3 /\ last.ret = 1
    /\ hp[last.who] = MaxHpOf(last.who)

\* C3: between scheduler operations every effect in an actor's list has
\* turns_left >= 1; an effect that reaches 0 in apply_turn is expired and
\* removed within that tick.
C3_TurnsLeftPositive ==
    \A a \in Actors : \A i \in DOMAIN effects[a] : effects[a][i].turns_left >= 1

\* the player drank a potion of duration 1 and the effect ticks of that turn
\* have run: the effect reached 0 and is gone, with its flag
C3_Witness ==
    /\ last.op = "quaff1" /\ pc = After("effects")
    /\ effects["player"] = <<>>
    /\ ~is_hasted["player"] /\ ~is_asleep["player"] /\ ~is_invisible["player"]

\* The list of effects after one tick to each: turns_left one less, and the
\* effects that reached 0 gone
Ticked(es) ==
    SelectSeq([i \in DOMAIN es |-> [es[i] EXCEPT !.turns_left = @ - 1]],
              LAMBDA e : e.turns_left >= 1)

\* C4: in a normal end_turn every effect on every living actor receives
\* exactly one apply_turn tick, also when another effect of that actor expires
\* and is removed in the same pass.
C4_EveryEffectTicked ==
    [][At("effects") /\ pc' = After("effects") =>
          \A a \in ActorsOf(World) : effects'[a] = Ticked(effects[a])]_vars

\* The prefixes of a sequence
Prefixes(s) == {SubSeq(s, 1, n) : n \in 0 .. Len(s)}

\* C5: a normal end_turn runs its steps in strict order: the effect ticks and
\* expirations, then every AI perform(), then the field of view, then the turn
\* counter, up by exactly 1, with the bonus grant.
C5_StepOrder ==
    [][/\ log' # log => log' \in Prefixes(<<"effects", "ai", "fov", "turn">>)
                                   \cup Prefixes(<<"bonus", "fov">>)
       /\ (\E a \in Actors : performs'[a] > performs[a]) => log' = <<"effects", "ai">>
       /\ log' # log /\ Len(log') >= 3 => cur = NoActor /\ snapshot = {}
       /\ turn' # turn => /\ turn' = turn + 1
                          /\ log' = <<"effects", "ai", "fov", "turn">>
                          /\ bonus_actions' = (Speed(World, "player") \div 100) - 1]_vars

\* a normal end_turn is over, in which a monster hurt the player
C5_Witness ==
    /\ pc = "player" /\ log = <<"effects", "ai", "fov", "turn">>
    /\ turn = 2 /\ hp["player"] < MaxHpOf("player")

\* C6: energy is never negative and changes in two ways only: up by the
\* actor's speed once, when the AI pass comes to the actor, and down by
\* exactly 100 before each perform(); there are as many perform() calls as
\* decrements of 100.
C6_EnergyAccounting ==
    [][\A a \in Actors :
          /\ energy'[a] >= 0
          /\ energy'[a] # energy[a] =>
                \/ /\ energy'[a] = energy[a] + Speed(World, a)
                   /\ pc = "ai_loop" /\ a \in snapshot /\ a \notin snapshot'
                   /\ performs'[a] = performs[a]
                \/ /\ energy'[a] = energy[a] - 100
                   /\ performs'[a] = performs[a] + 1
          /\ performs'[a] > performs[a] =>
                performs'[a] = performs[a] + 1 /\ energy'[a] = energy[a] - 100]_vars

\* the monster of speed 200 has had its two action opportunities
C6_Witness ==
    /\ pc = "ai_loop" /\ performs["m2"] = 2 /\ energy["m2"] = 0

\* the AI pass has just finished with actor a
DoneWith(a) ==
    /\ pc = "ai_loop"
    /\ cur' = NoActor
    /\ \/ cur = a
       \/ cur = NoActor /\ a \in snapshot /\ a \notin snapshot'

\* C7: in one AI pass an actor that starts with energy e and speed s and
\* keeps an AI receives floor((e+s)/100) perform() calls and ends with
\* (e+s) mod 100: speed 200 from 0 gives 2 calls, speed 150 gives 1 call and
\* 50 carried over.
C7_PerformsPerPass ==
    [][\A a \in Monsters :
          DoneWith(a) /\ ai'[a] # <<>> =>
             /\ performs'[a] = (pass_energy[a] + Speed(World, a)) \div 100
             /\ energy'[a] = (pass_energy[a] + Speed(World, a)) % 100
             /\ BaseSpeed(a) = 200 /\ ~is_hasted[a] /\ pass_energy[a] = 0 =>
                   performs'[a] = 2
             /\ BaseSpeed(a) = 150 /\ ~is_hasted[a] /\ pass_energy[a] = 0 =>
                   performs'[a] = 1 /\ energy'[a] = 50]_vars

\* the first pass is over for both monsters: one call and 50 left at speed
\* 150, two calls and nothing left at speed 200
C7_Witness ==
    /\ pc = "ai_loop" /\ snapshot = {} /\ cur = NoActor /\ turn = 1
    /\ ai["m1"] # <<>> /\ ai["m2"] # <<>>
    /\ performs["m1"] = 1 /\ energy["m1"] = 50
    /\ performs["m2"] = 2 /\ energy["m2"] = 0

\* C8: end_turn with bonus actions left consumes one and recomputes the field
\* of view only: no turns_left changes, no effect expires, no energy changes,
\* no perform() runs, the turn counter stays.
C8_BonusTickFrame ==
    [][pc = "end_turn" /\ bonus_actions > 0 =>
          /\ bonus_actions' = bonus_actions - 1
          /\ pc' = "player"
          /\ UNCHANGED <<effects, energy, turn, performs, hp, ai, pos, entities,
                         is_asleep, is_hasted, is_invisible, render_order,
                         blocks_movement, kill_counts, xp_awards, death_msgs>>
          /\ last'.op # "perform"]_vars

\* a bonus tick has passed over a player under a running effect
C8_Witness ==
    /\ pc = "player" /\ log = <<"bonus", "fov">>
    /\ effects["player"] # <<>> /\ bonus_actions = 0

\* C9: a normal end_turn ends by setting the bonus actions to
\* (player speed // 100) - 1, and to none when that is not positive; they are
\* set, not added up, so at speed 200 a normal pass and a bonus tick
\* alternate, and at speed 100 every end_turn is a normal pass.
C9_BonusGrant ==
    [][/\ turn' # turn =>
             bonus_actions' = Max(0, (Speed(World, "player") \div 100) - 1)
       /\ pc' = "end_turn" =>
             IF log' # <<>> /\ log'[Len(log')] = "turn"
             THEN bonus_actions' = (grant_speed' \div 100) - 1
             ELSE bonus_actions' = 0]_vars

\* end_turn is called on a hasted player whose last tick was a bonus tick:
\* this one is a normal pass
C9_Witness ==
    /\ pc = "end_turn" /\ log = <<"bonus", "fov">>
    /\ is_hasted["player"] /\ grant_speed = 200 /\ bonus_actions = 0

\* C10: when the player's action raises Impossible, end_turn is not called,
\* and the turn counter, the bonus actions, every energy and every turns_left
\* are what they were.
C10_ImpossibleFrame ==
    [][pc = "player" /\ ~last'.ok =>
          /\ pc' = "player"
          /\ UNCHANGED <<turn, bonus_actions, energy, effects, log>>]_vars

\* a bump into the wall was refused in the middle of a game: a bonus action
\* and carried energy are still there
C10_Witness ==
    /\ pc = "player" /\ ~last.ok /\ last.op = "bump"
    /\ bonus_actions = 1 /\ energy["m1"] = 50

\* C11: when perform() of MovementAction, BumpAction, MeleeAction,
\* OpenDoorAction or CloseDoorAction raises Impossible, nothing has been
\* mutated: the actor's position, the tiles, the secret doors, the entity set
\* and every hp are what they were before the call.
C11_ImpossibleNoMutation ==
    [][~last'.ok => UNCHANGED <<pos, tiles, secret_doors, entities, hp>>]_vars

\* a move was refused after the map had changed: a door opened, a monster dead
C11_Witness ==
    /\ ~last.ok /\ last.op = "move"
    /\ \E x \in Tiles : tiles[x] = "door_open"
    /\ hp["m1"] = 0

\* C12: an Impossible raised inside one actor's perform() during the AI pass
\* costs that actor the one action opportunity and nothing else: the actor's
\* remaining opportunities and the other actors of the snapshot still get
\* their perform() calls, and the pass ends with the field-of-view update and
\* the turn increment.
C12_ImpossibleInAiPass ==
    [][/\ pc = "ai_loop" /\ cur # NoActor /\ ~last'.ok =>
             /\ pc' = "ai_loop"
             /\ snapshot' = snapshot
             /\ performs'[cur] = performs[cur] + 1
             /\ energy'[cur] = energy[cur] - 100
             /\ cur' = IF energy'[cur] >= 100 /\ ai'[cur] # <<>> THEN cur ELSE NoActor
       /\ pc = "ai_loop" /\ pc' # "ai_loop" =>
             /\ pc' = "fov" /\ snapshot = {} /\ cur = NoActor
             /\ \A a \in Monsters :
                   ai[a] # <<>> =>
                      performs[a] = (pass_energy[a] + Speed(World, a)) \div 100
       /\ pc # "player" /\ pc' = "player" =>
             log' \in {<<"effects", "ai", "fov", "turn">>, <<"bonus", "fov">>}]_vars

\* the AI pass is over and its last perform() raised Impossible; both monsters
\* have had all their calls
C12_Witness ==
    /\ pc = "turn" /\ last.op = "perform" /\ ~last.ok
    /\ performs["m1"] = 1 /\ performs["m2"] = 2

\* C13: when perform() of a HostileEnemy, PatrollingEnemy or ConfusedEnemy
\* ends with Impossible raised by its sub-action, no partial mutation is left:
\* the AI's last_known_target and confusion counter (with its path, patrol
\* target, wander counter and the noticed_player flag) are what they were
\* before the call.
C13_AiStateKeptOnImpossible ==
    [][pc = "ai_loop" /\ cur # NoActor /\ ~last'.ok => ai'[cur] = ai[cur]]_vars

\* C14: in every reachable state an actor in corpse state has no AI or an
\* ExplodingCorpseAI, never a HostileEnemy or a ConfusedEnemy, whatever
\* attacks, deaths, explosions and confusion scrolls came before.
C14_CorpseAi ==
    \A a \in Actors :
       render_order[a] = "CORPSE" => ai[a] = <<>> \/ Head(ai[a]).kind = "exploding"

\* C15 as stated: when die() is invoked on an actor that is a corpse already
\* (here by take_damage taking the last hp of a corpse that has an AI), the only effect is
\* that the corpse's AI is disarmed: no other actor's hp changes, no actor
\* dies, no death message is logged and no experience is awarded.
C15_ReentryOnlyDisarms ==
    [][(/\ last'.op = "take_damage" /\ render_order[last'.who] = "CORPSE"
        /\ last'.arg >= hp[last'.who]) =>
          /\ ai'[last'.who] = <<>>
          /\ \A b \in Actors \ {last'.who} : hp'[b] = hp[b]
          /\ render_order' = render_order
          /\ death_msgs' = death_msgs
          /\ xp_awards' = xp_awards]_vars

\* C15: when die() is invoked on an actor that is a corpse already, no death
\* logic is run again for it (no death message, no experience, no kill, it
\* stays a corpse with hp 0); a corpse that still carries a primed
\* ExplodingCorpseAI is detonated at once (its AI is cleared, every living
\* actor and the player within the radius takes the explosion's damage and may
\* die of it, the corpse leaves the entity set), and any other corpse is left
\* as it was.
C15_ReentryDetonates ==
    [][(/\ last'.op = "take_damage" /\ render_order[last'.who] = "CORPSE"
        /\ last'.arg >= hp[last'.who]) =>
          LET a == last'.who
          IN /\ death_msgs'[a] = death_msgs[a]
             /\ xp_awards'[a] = xp_awards[a]
             /\ kill_counts'[a] = kill_counts[a]
             /\ render_order'[a] = "CORPSE"
             /\ hp'[a] = 0
             /\ IF ai[a] # <<>> /\ Head(ai[a]).kind = "exploding"
                THEN /\ ai'[a] = <<>>
                     /\ booms'[a] = booms[a] + 1
                     /\ a \notin entities'
                     /\ \A b \in Actors \ {a} :
                           /\ b = "player" \/ (b \in entities /\ ai[b] # <<>>)
                           /\ Abs(pos[b] - pos[a]) <= DeathExplosion.radius
                           => hits'[b] >= 1 /\ (hp'[b] < hp[b] \/ hp[b] = 0)
                ELSE UNCHANGED <<hp, ai, entities, render_order, death_msgs,
                                 xp_awards, kill_counts, booms>>]_vars

\* take_damage on the primed corpse of m1 has set it off next to the player
C15_Witness ==
    /\ last.op = "take_damage" /\ last.who = "m1"
    /\ booms["m1"] = 1 /\ "m1" \notin entities
    /\ hits["player"] = 1 /\ hp["player"] = MaxHpOf("player") - DeathExplosion.damage

\* C16: every exploding corpse detonates at most once, chain reactions
\* included. Its AI is cleared before its detonation deals damage, so of two
\* primed corpses in each other's radius only the one set off second is hit by
\* the other's explosion. An exploded corpse has no AI and is off the map, the
\* scheduler gives it no turn (it is not alive), a later die() on it changes
\* nothing, and a later take_damage on it sets off nothing and deals no damage
\* to anyone else (hp it was healed to while primed is all it can lose).
C16_DetonatesOnce ==
    /\ \A a \in Actors : booms[a] <= 1
    /\ hits["m1"] + hits["m2"] <= 1
    /\ \A a \in Actors :
          booms[a] = 1 =>
             /\ ai[a] = <<>> /\ ~IsAlive(World, a)
             /\ a \notin entities
             /\ render_order[a] = "CORPSE"
             /\ \A ord \in Perms :
                   /\ Die(World, a, ord) = World
                   /\ \A amount \in DamageAmounts :
                         [TakeDamage(World, a, amount, ord) EXCEPT !.hp[a] = hp[a]]
                            = World

\* the countdown of one primed corpse ran out and its explosion set off the
\* other one: both have exploded, once each
C16_Witness ==
    /\ last.op = "perform"
    /\ booms["m1"] = 1 /\ booms["m2"] = 1
    /\ hits["m1"] + hits["m2"] = 1
    /\ hits["player"] = 1

\* C17: one detonation of an exploding corpse (set off by its countdown or by
\* damage to the corpse) calls take_damage with the configured damage exactly
\* once on every living actor, the player included, whose distance from the
\* corpse is at most the radius, and on no actor farther away nor on the corpse
\* itself; hp changes accordingly, and afterwards the corpse is not in the
\* entity set.
C17_DetonationDamage ==
    [][LET exploded == {a \in Actors : booms'[a] = booms[a] + 1}
       IN (Cardinality(exploded) = 1 /\ last'.op \in {"perform", "take_damage"}) =>
             LET c == CHOOSE a \in exploded : TRUE
                 near(t) == Abs(pos[t] - pos[c]) <= DeathExplosion.radius
                 living(t) == t \in entities /\ ai[t] # <<>>
             IN /\ c \notin entities'
                /\ hits'[c] = 0
                /\ \A t \in Actors \ {c} :
                      /\ near(t) /\ living(t) =>
                            /\ hits'[t] = 1
                            /\ hp'[t] = Max(0, hp[t] - DeathExplosion.damage)
                      /\ ~near(t) => hits'[t] = 0 /\ hp'[t] = hp[t]
                      /\ ~living(t) /\ t # "player" => hits'[t] = 0]_vars

\* the corpse of m1 at tile 1 has exploded: the player, at the edge of the
\* radius, was hit once, and m2, two tiles away and alive, was not
C17_Witness ==
    /\ last.op = "perform" /\ last.who = "m1"
    /\ booms["m1"] = 1 /\ booms["m2"] = 0 /\ "m1" \notin entities
    /\ pos["m1"] = 1 /\ pos["m2"] = 3
    /\ hits["player"] = 1 /\ hp["player"] = MaxHpOf("player") - DeathExplosion.damage
    /\ hits["m2"] = 0 /\ hp["m2"] = MaxHpOf("m2") /\ ai["m2"] # <<>>

\* C18: every perform() call on a ConfusedEnemy counts towards its revert,
\* whatever the call's outcome and whatever the actor's condition: a call that
\* finds turns_remaining = k > 0 leaves k - 1 (unless the actor dies in it),
\* and the call that finds 0, the (n+1)-th, puts back the AI held before the
\* confusion.
C18_RevertsOnCall ==
    [][(/\ pc = "ai_loop" /\ cur # NoActor
        /\ ai[cur] # <<>> /\ Head(ai[cur]).kind = "confused") =>
          IF Head(ai[cur]).n <= 0
          THEN ai'[cur] = Tail(ai[cur])
          ELSE \/ ai'[cur] = <<>>
               \/ ai'[cur] = <<[Head(ai[cur]) EXCEPT !.n = @ - 1]>> \o Tail(ai[cur])]_vars

\* C19: take_damage on a sleeping actor clears its asleep flag and removes
\* every Sleep effect from its list before the hp is changed: the hp is never
\* set by take_damage while the actor is asleep; a sleeping actor that loses
\* hp gets its wake-up message, and an actor woken by take_damage (any step
\* but the effect ticks that logs a wake-up message) was asleep, got exactly
\* one message, and ends the step, whether it died of the damage or not,
\* awake and without a Sleep effect that could still tick or expire. The only
\* other wake-up messages are those of Sleep effects that expire while they
\* are in the actor's list.
C19_WakeBeforeDamage ==
    [][/\ ~hurt_asleep'
       /\ \A a \in Actors :
             /\ is_asleep[a] /\ hp'[a] < hp[a] => wake_msgs'[a] = 1
             /\ pc' # "ai" /\ wake_msgs'[a] >= 1 =>
                   /\ is_asleep[a]
                   /\ wake_msgs'[a] = 1
                   /\ ~is_asleep'[a]
                   /\ \A i \in DOMAIN effects'[a] : effects'[a][i].name # "Sleep"
             /\ pc' = "ai" /\ wake_msgs'[a] >= 1 =>
                   /\ \E i \in DOMAIN effects[a] : effects[a][i].name = "Sleep"
                   /\ Len(effects'[a]) < Len(effects[a])
                   /\ hp'[a] = hp[a]]_vars

\* the player's attack has killed the sleeping m1: it was woken, its Sleep
\* effect is gone, and it is a corpse
C19_Witness ==
    /\ pc = "end_turn"
    /\ wake_msgs["m1"] = 1
    /\ hp["m1"] = 0 /\ render_order["m1"] = "CORPSE"
    /\ ~is_asleep["m1"] /\ effects["m1"] = <<>>

\* C20 as stated: whenever a melee attack's resolved damage is at least the
\* defender's hp and the defender has an AI, then when MeleeAction.perform
\* returns the defender has hp 0, is a corpse that does not block movement,
\* and its AI is an ExplodingCorpseAI if it has a death explosion and absent
\* otherwise.
C20_MeleeKills ==
    [][(/\ last'.op = "melee" /\ last'.ok
        /\ ai[last'.who] # <<>>
        /\ last'.arg >= hp[last'.who]) =>
          LET t == last'.who
          IN /\ hp'[t] = 0
             /\ render_order'[t] = "CORPSE"
             /\ ~blocks_movement'[t]
             /\ ai'[t] = IF death_explosion[t]
                         THEN <<ExplodingCorpseAI(DeathExplosion.delay)>>
                         ELSE <<>>]_vars

\* C20: whenever a melee attack's resolved damage is at least the hp of a
\* defender that has an AI and is not a corpse yet, then when
\* MeleeAction.perform returns, in that same step, the defender has hp 0, is a
\* corpse on the map that does not block movement, and its AI is a freshly
\* primed ExplodingCorpseAI if it has a death explosion and absent otherwise.
C20_MeleeKillsLiving ==
    [][(/\ last'.op = "melee" /\ last'.ok
        /\ ai[last'.who] # <<>>
        /\ render_order[last'.who] # "CORPSE"
        /\ last'.arg >= hp[last'.who]) =>
          LET t == last'.who
          IN /\ hp'[t] = 0
             /\ render_order'[t] = "CORPSE"
             /\ ~blocks_movement'[t]
             /\ t \in entities'
             /\ ai'[t] = IF death_explosion[t]
                         THEN <<ExplodingCorpseAI(DeathExplosion.delay)>>
                         ELSE <<>>]_vars

\* a melee attack has just killed m1, which has a death explosion and is now
\* a primed corpse; m2, killed before, has none and has no AI
C20_Witness ==
    /\ last.op = "melee" /\ last.ok /\ last.who = "m1" /\ last.arg >= MaxHpOf("m1")
    /\ hp["m1"] = 0 /\ render_order["m1"] = "CORPSE" /\ ~blocks_movement["m1"]
    /\ ai["m1"] = <<ExplodingCorpseAI(DeathExplosion.delay)>>
    /\ hp["m2"] = 0 /\ render_order["m2"] = "CORPSE" /\ ai["m2"] = <<>>

\* C21: compute_damage with crit_chance = 0 never takes the critical branch:
\* whatever random.random() gives, it returns (attack_power - defense, False),
\* (7, False) for attack_power 10 and defense 3.
C21_NoCritAtZeroChance ==
    (roll.done /\ roll.crit_chance = 0) =>
        /\ ~roll.is_crit
        /\ roll.damage = roll.attack_power - roll.defense

\* The tiles of the discrete line from tile sx (left out) to tile x (included)
LineTo(sx, x) == {y \in (Min(sx, x) .. Max(sx, x)) : y # sx}

\* C22: every throw lands on the thrower's tile or on an in-bounds walkable
\* tile of the line from the thrower to the target, at most MAX_RANGE steps
\* along it and before the first non-walkable tile; the actor hit, if any, is
\* the first living actor of the line, stands before any wall and is never
\* the thrower.
C22_ThrowPath ==
    [][inventory' # inventory =>
        LET sx == pos["player"]
            t == thrown'
            passed == LineTo(sx, t.x)
        IN /\ t.from = sx
           /\ \/ t.x = sx
              \/ /\ t.x \in LineTo(sx, t.target)
                 /\ Abs(t.x - sx) <= MaxRange
           /\ \A y \in passed : y \in DOMAIN tiles /\ Walkable(tiles[y])
           /\ \A y \in passed \ {t.x} : ActorsAt(World, y) = {}
           /\ t.hit # NoActor =>
                 /\ t.hit # "player"
                 /\ t.hit \in ActorsAt(World, t.x)
                 /\ t.x # sx
           /\ t.hit = NoActor => (t.x = sx \/ ActorsAt(World, t.x) = {})
    ]_vars

\* a throw stopped by a wall behind which a living monster stands, on the
\* line and in range
C22_Witness ==
    /\ thrown.stop = "wall"
    /\ thrown.hit = NoActor
    /\ thrown.x > thrown.from
    /\ \E a \in ActorsOf(World) :
          pos[a] > thrown.x + 1 /\ pos[a] <= thrown.target
                                /\ pos[a] - thrown.from <= MaxRange

\* C28: a thrown consumable that is not a bomb and whose path ends against a
\* wall without hitting an actor is destroyed and not placed on the map; a
\* thrown bomb always explodes at the final tile, hit or no hit, and is never
\* left on the map.
C28_BreaksAgainstWall ==
    [][inventory' # inventory =>
        /\ (/\ ConsumableOf(thrown'.name) = "SleepConsumable"
            /\ thrown'.stop = "wall") =>
              (thrown'.fate = "broke" /\ floor' = floor)
        /\ ConsumableOf(thrown'.name) = "BombConsumable" =>
              (thrown'.fate = "exploded" /\ floor' = floor)
    ]_vars

\* The units of the item `name` in a list of items, and those of them on tile x
RECURSIVE Units(_, _)
Units(items, name) ==
    IF items = <<>> THEN 0
    ELSE (IF Head(items).name = name THEN Head(items).stack_count ELSE 0)
         + Units(Tail(items), name)

UnitsAt(items, name, x) == Units(SelectSeq(items, LAMBDA it : it.x = x), name)

\* C29: a throw takes exactly one unit of the thrown item out of the
\* inventory (one off the stack, or the item itself when it is the last
\* unit) and nothing else; a unit that is not consumed ends on the landing
\* tile, merged into the same-name stack there when the item stacks and one
\* exists, so inventory plus floor keeps its units; a consumed unit leaves
\* the floor as it was.
C29_OneUnitThrown ==
    [][inventory' # inventory =>
        LET t == thrown'
            kept == t.fate \in {"placed", "merged"}
        IN /\ \A n \in ItemNames :
                 Units(inventory', n) = Units(inventory, n) - (IF n = t.name THEN 1 ELSE 0)
           /\ Len(inventory') \in {Len(inventory), Len(inventory) - 1}
           /\ kept =>
                 /\ \A n \in ItemNames, x \in DOMAIN tiles :
                       UnitsAt(floor', n, x) = UnitsAt(floor, n, x)
                           + (IF n = t.name /\ x = t.x THEN 1 ELSE 0)
                 /\ Units(inventory', t.name) + Units(floor', t.name)
                       = Units(inventory, t.name) + Units(floor, t.name)
                 /\ Len(floor') = Len(floor)
                       + (IF Stackable(t.name) /\ UnitsAt(floor, t.name, t.x) > 0
                          THEN 0 ELSE 1)
           /\ ~kept => floor' = floor
           /\ kept <=> (ConsumableOf(t.name) = "none"
                        \/ (t.hit = NoActor /\ ConsumableOf(t.name) # "BombConsumable"))
    ]_vars

\* the last dagger of the inventory was thrown onto the dagger lying on the
\* floor and merged into it
C29_Witness ==
    /\ thrown.name = "dagger"
    /\ thrown.fate = "merged"
    /\ Units(inventory, "dagger") = 0
    /\ \E j \in 1 .. Len(floor) :
          floor[j].name = "dagger" /\ floor[j].x = thrown.x /\ floor[j].stack_count >= 2

\* C23: once every Rage effect of the player has expired, whatever their
\* number, their multipliers and the order of their expiry, base_power is
\* exactly what it was before the first of them was activated.
C23_RageRestores ==
    effects["player"] = <<>> => base_power = calm_power

\* the AI pass takes actor a as the next entity of its loop
Taken(a) == pc = "ai_loop" /\ a \in snapshot /\ a \notin snapshot'

\* C24: the AI pass works on the set of living non-player actors taken at
\* its start. The set only shrinks, by one actor at a time, and the pass ends
\* when it is empty; an actor gains energy only when it is taken from the
\* set (so at most once a pass) and then gains its speed if it still has an
\* AI; an actor that lost its AI before it was taken gains no energy and is
\* given no perform(); perform() runs only on actors already taken that have
\* an AI.
C24_PassSnapshot ==
    [][/\ (pc # "ai_loop" /\ pc' = "ai_loop") =>
             snapshot' = {a \in Monsters : a \in entities /\ ai[a] # <<>>}
       /\ (pc = "ai_loop" /\ pc' = "ai_loop") =>
             (snapshot' \subseteq snapshot /\ Cardinality(snapshot \ snapshot') <= 1)
       /\ (pc = "ai_loop" /\ pc' # "ai_loop") => snapshot = {}
       /\ \A a \in Actors :
             /\ (pc = "ai_loop" /\ a \in snapshot) =>
                   (performs[a] = 0 /\ energy[a] = pass_energy[a])
             /\ energy'[a] > energy[a] => Taken(a)
             /\ (Taken(a) /\ ai[a] # <<>>) =>
                   energy'[a] = pass_energy[a] + Speed(World, a)
             /\ (Taken(a) /\ ai[a] = <<>>) =>
                   (energy'[a] = energy[a] /\ cur' # a)
             /\ performs'[a] > performs[a] =>
                   (a = cur /\ ai[a] # <<>> /\ a \notin snapshot /\ a # "player")
             /\ (pc = "ai_loop" /\ ai[a] = <<>> /\ a \in snapshot') =>
                   (performs'[a] = 0 /\ energy'[a] = pass_energy[a])
    ]_vars

\* a monster of the running pass has lost its AI before its turn, while the
\* other one has had a perform() call
C24_Witness ==
    /\ pc = "ai_loop"
    /\ \E a \in snapshot, b \in Monsters :
          ai[a] = <<>> /\ performs[b] >= 1

\* C25: no effect lasts forever: while the player keeps taking turns, the
\* effects carried by an actor that stays alive are all expired and removed in
\* the end, whatever they are and in whatever order they were applied.
C25_EffectsExpire ==
    \A a \in Actors :
        (effects[a] # <<>>) ~> (effects[a] = <<>> \/ ai[a] = <<>> \/ ai["player"] = <<>>)

\* past the counted turns, the Sleep effect of a living monster has just
\* expired and left its list empty
C25_Witness ==
    /\ turn >= MaxTurn
    /\ \E a \in Monsters :
          /\ ai[a] # <<>> /\ ai["player"] # <<>>
          /\ wake_msgs[a] = 1 /\ hits[a] = 0 /\ ~hurt_asleep
          /\ effects[a] = <<>>
          /\ pc = After("effects")

C27_BumpPriority ==
    [][last'.op = "bump" =>
        LET a == last'.who
            dest == last'.arg
            dy == last'.ret
            inb == dy = 0 /\ dest \in Tiles
            still == hp' = hp /\ ai' = ai /\ booms' = booms
        IN IF dy = 0 /\ ActorsAt(World, dest) # {}
           THEN /\ last'.ok
                /\ pos' = pos /\ tiles' = tiles /\ secret_doors' = secret_doors
                /\ \E t \in ActorsAt(World, dest) :
                      hp'[t] < hp[t] \/ booms'[t] > booms[t]
           ELSE IF inb /\ dest \in secret_doors
           THEN /\ last'.ok
                /\ tiles' = [tiles EXCEPT ![dest] = "door_closed"]
                /\ secret_doors' = secret_doors \ {dest}
                /\ pos' = pos /\ still
           ELSE IF inb /\ AutoOpenDoors /\ tiles[dest] = "door_closed"
           THEN /\ last'.ok
                /\ tiles' = [tiles EXCEPT ![dest] = "door_open"]
                /\ secret_doors' = secret_doors
                /\ pos' = pos /\ still
           ELSE /\ tiles' = tiles /\ secret_doors' = secret_doors /\ still
                /\ IF inb /\ Walkable(tiles[dest]) /\ ~BlockedAt(World, dest)
                   THEN last'.ok /\ pos' = [pos EXCEPT ![a] = dest]
                   ELSE ~last'.ok /\ pos' = pos
    ]_vars

\* a bump has just revealed a secret door: it returned, its destination is a
\* closed door now and the actor has not moved onto it
C27_Witness ==
    /\ last.op = "bump" /\ last.ok /\ last.ret = 0
    /\ last.arg \in Tiles
    /\ tiles[last.arg] = "door_closed"
    /\ last.arg \notin secret_doors
    /\ pos[last.who] # last.arg

\* C30: every perform() of a MovementRepeatedAction, CarefulMovementAction or
\* TargetMovementAction that starts while a hostile actor is visible leaves
\* the actor where it is and returns no repeat signal, and after the end_turn
\* that follows a perform() without repeat signal the action is dropped.
C30_StopsWhenHostileVisible ==
    [][/\ (pc = "run_perform" /\ pc' = "run_turn" /\ AnyMonstersVisible(World))
            => (pos' = pos /\ last'.ret = 0)
       /\ (pc = "run_turn" /\ pc' # "run_turn" /\ last.ret = 0)
            => (pc' = "run_idle" /\ run' = NoRun /\ pos'["player"] = pos["player"])
    ]_vars

\* a careful run that had moved the player was stopped by a perform() made
\* with a monster in view, seen through a door that stands open
C30_Witness ==
    /\ pc = "run_turn"
    /\ last.ret = 0
    /\ run.kind = "careful"
    /\ AnyMonstersVisible(World)
    /\ run.has_moved
    /\ \E x \in Tiles : tiles[x] = "door_open" /\ pos["player"] < x /\ x < pos["m1"]

\* The monster's AI detects the player: its own tile is visible, the player
\* is not invisible and the player is within its sight range.
Detects(a) ==
    /\ pos[a] \in visible
    /\ ~is_invisible["player"]
    /\ Abs(pos["player"] - pos[a]) <= SightRange(a)

\* A step is a perform() call of the monster, whose AI is of the kind given
Performs(kind) == last'.op = "perform" /\ Head(ai[cur]).kind = kind

\* What a HostileEnemy.perform() that gets past its first test does with
\* last_known_target and with the path
LktRule ==
    LET lkt == Head(ai[cur]).lkt
        after == Head(ai'[cur]).lkt
        path == GetPathTo(World, cur, lkt)
    IN /\ Detects(cur) => after = pos["player"]
       /\ (~Detects(cur) /\ lkt # NoTile /\ pos[cur] = lkt) => after = NoTile
       /\ (~Detects(cur) /\ (lkt = NoTile \/ pos[cur] # lkt)) => after = lkt
       /\ (~Detects(cur) /\ lkt # NoTile /\ pos[cur] # lkt /\ path # <<>>)
            => pos'[cur] \in {pos[cur], Head(path)}

C32_AttackOnlyWhenDetected ==
    [][((Performs("hostile") \/ Performs("patrolling")) /\ hp'["player"] < hp["player"])
          => /\ Detects(cur)
             /\ Abs(pos["player"] - pos[cur]) <= AttackRange(cur)]_vars

\* the monster has just hit the player
C32_Witness ==
    /\ last.op = "perform"
    /\ ai[cur] # <<>> /\ Head(ai[cur]).kind \in {"hostile", "patrolling"}
    /\ last.arg > 0

\* C33: the perform() of a HostileEnemy, a PatrollingEnemy or a ConfusedEnemy
\* whose actor is asleep changes nothing: its position, path, last_known_target,
\* patrol target, wander counter, confusion counter and noticed_player flag,
\* every other actor and the map are as before.
C33_AsleepNoOp ==
    [][(last'.op = "perform" /\ is_asleep[cur]
          /\ Head(ai[cur]).kind \in {"hostile", "patrolling", "confused"})
         => UNCHANGED <<pos, ai, patrol, noticed, hp, entities, effects, is_asleep,
                        is_invisible, tiles, secret_doors, visible, render_order,
                        blocks_movement>>]_vars

\* a sleeping monster next to a player it could see has just had its turn
C33_Witness ==
    /\ last.op = "perform"
    /\ is_asleep[cur]
    /\ Detects(cur)
    /\ Abs(pos["player"] - pos[cur]) <= AttackRange(cur)

\* What a PatrollingEnemy does on its target and while its wander counter runs:
\* on the target it clears it and starts the counter; the counter goes down by
\* one per call, with a wander move and no target selected; a target is never
\* held while the counter is positive.
PatrolWanderRule ==
    LET st == patrol[cur]
        after == patrol'[cur]
    IN /\ (st.wander = 0 /\ st.target # NoTile /\ pos[cur] = st.target)
            => after.target = NoTile /\ after.wander = WanderTurns
       /\ st.wander > 0
            => /\ after.wander = st.wander - 1
               /\ after.target = NoTile
               /\ Abs(pos'[cur] - pos[cur]) <= 1
       /\ after.wander > 0 => after.target = NoTile

\* The target is dropped in a call that starts without a path to it (unseen
\* says when the stored path does not count), and a call that starts without
\* target and counter selects one: a target is held afterwards unless the tile
\* drawn is the actor's own (the counter starts) or out of reach (dropped again)
PatrolNoPathRule(unseen(_)) ==
    LET st == patrol[cur]
        after == patrol'[cur]
    IN /\ (st.wander = 0 /\ st.target # NoTile /\ pos[cur] # st.target
              /\ unseen(st.path) /\ GetPathTo(World, cur, st.target) = <<>>)
            => after.target = NoTile /\ after.wander = 0
       /\ (st.wander = 0 /\ st.target = NoTile)
            => \/ after.target # NoTile
               \/ after.wander = WanderTurns
               \/ \E x \in Tiles : Walkable(tiles[x]) /\ x # pos[cur]
                                       /\ GetPathTo(World, cur, x) = <<>>

C36_StepsOfOne ==
    [][(last'.op = "perform" /\ pos'[cur] # pos[cur])
         => Abs(pos'[cur] - pos[cur]) = 1]_vars

\* C35: every attack of an attacker named Dragon, Ender Dragon or Hydra, by
\* MeleeAction or by RangedAttackAction, gives compute_damage the crit chance
\* 0.30, and every attack of any other attacker the crit chance 0.05.
C35_CritChanceByName ==
    last.op \in {"melee", "ranged"}
        => roll.crit_chance = IF names[last.who] \in {"Dragon", "Ender Dragon", "Hydra"}
                              THEN 30 ELSE 5

\* C37: no tile holds two movement-blocking entities, and every actor that
\* blocks movement stands on a tile of the map that is walkable.
C37_BlockersApartOnWalkable ==
    LET blockers == {a \in entities : blocks_movement[a]}
    IN /\ \A a, b \in blockers : a # b => pos[a] # pos[b]
       /\ \A a \in blockers : pos[a] \in Tiles /\ Walkable(tiles[pos[a]])

\* C38: for every actor, is_hasted holds exactly when its effect list has a
\* Haste effect, is_invisible exactly when it has an Invisible effect and
\* is_asleep exactly when it has a Sleep effect.
C38_FlagsMatchEffects ==
    \A a \in Actors :
        LET has(name) == \E i \in DOMAIN effects[a] : effects[a][i].name = name
        IN /\ is_hasted[a] <=> has("Haste")
           /\ is_invisible[a] <=> has("Invisible")
           /\ is_asleep[a] <=> has("Sleep")

\* C39: with no hostile actor in sight, every run of a MovementRepeatedAction
\* or a CarefulMovementAction that handle_action has started gets a no-repeat
\* result in the end, whatever the layout of the map.
C39_RunTerminates == (pc = "grid_perform") ~> (pc = "grid_idle")

\* C40: in handle_action every perform() that returns without Impossible is
\* followed by exactly one end_turn() before any further perform(), also the
\* last one of a repeated action that stops without moving the actor; a
\* perform() that raises Impossible is followed by no end_turn() and ends the
\* call.
C40_OneEndTurnPerPerform ==
    LET n == Len(log)
    IN /\ \A i \in 1 .. n :
            /\ log[i] = "perform" => (IF i = n THEN pc = "run_turn" ELSE log[i + 1] = "end_turn")
            /\ log[i] = "end_turn" => i > 1 /\ log[i - 1] = "perform"
            /\ log[i] = "impossible" => i = n /\ pc = "run_idle"
       /\ (pc = "run_perform" /\ n > 0) => log[n] = "end_turn"
       /\ (pc = "run_idle" /\ n > 0) => log[n] \in {"end_turn", "impossible"}

\* a repeated action has moved the player, its last perform() stopped without
\* moving it, and the end_turn() of that call was made
C40_Witness ==
    /\ pc = "run_idle"
    /\ Len(log) >= 4
    /\ log[Len(log)] = "end_turn"
    /\ last.op \in {"repeat", "careful", "target"}
    /\ last.ret = 0

====
